---- MODULE Spec2Model ----
(***************************************************************************)
(* Booking lifecycle of the cab booking backend.                           *)
(*                                                                         *)
(* The state is the bookings collection, the drivers' completedRides       *)
(* counters, the wall clock, one record per request being handled, and the *)
(* response of the request that has just ended.                            *)
(* A request handler is a chain of steps separated by the awaits of its    *)
(* code: it loads a document (findById / findOne), validates and edits its *)
(* local copy, and finally saves it.  save() sends a $set of the paths     *)
(* the handler modified, filtered by _id only; the schema sets no          *)
(* optimistic-concurrency option, so a save is never refused because the   *)
(* stored document changed after it was loaded.                            *)
(*                                                                         *)
(* Times are minutes.  Money is whole rupees.                              *)
(***************************************************************************)
EXTENDS Integers, Sequences, FiniteSets, TLC

(***************************************************************************)
(* Bounds of the model.                                                    *)
(***************************************************************************)
\* bookings in the collection when requests are handled concurrently, and
\* when the duplicate-booking guard is exercised
LifecycleBookings == 1
MaxBookings == 2
\* requests handled at the same time
NumProcs == 2
\* advances of the clock
MaxTicks == 1
\* hours that pass where the cancellation charge is followed
MaxHours == 3
\* increments of one driver's completedRides followed where saves may fail
MaxRides == 2

Procs == 1..NumProcs

\* the customers and the drivers on file
Users == {1, 2}
Drivers == {1}

(***************************************************************************)
(* Values.                                                                 *)
(***************************************************************************)
\* null / undefined of an optional sub-document; a present one is <<doc>>
Null == <<>>
\* driverId: default null
NoDriver == 0
\* an unset Date field of the trip sub-document
NoTime == -1

Statuses ==
  {"PENDING", "CONFIRMED", "ASSIGNED", "IN_PROGRESS", "COMPLETED", "CANCELLED", "REJECTED"}

Roles == {"ADMIN", "DRIVER", "CUSTOMER"}

\* Math.round(n / d) for d > 0: floor(n/d + 1/2)
MathRound(n, d) == (2 * n + d) \div (2 * d)

Min(a, b) == IF a < b THEN a ELSE b
Max(a, b) == IF a > b THEN a ELSE b

(***************************************************************************)
(* Configuration (config/constants.js).  The file is not among the sources *)
(* at hand: GST and the cancellation window are the documented values, the *)
(* others the customary ones.  No lifecycle rule depends on them.          *)
(***************************************************************************)
MIN_BOOKING_HOURS_AHEAD == 2
ADVANCE_BOOKING_DAYS == 30
CANCELLATION_WINDOW_HOURS == 24
CANCELLATION_CHARGE_PERCENT == 20
\* TAX_CONFIG.GST_RATE, in percent
GST_RATE_PERCENT == 5

\* utils/helpers.js calculateGST(amount, rate) = amount * rate, here in
\* hundredths of a rupee so that the value stays exact
calculateGST(amount, ratePercent) == amount * ratePercent

(***************************************************************************)
(* Inputs the requests are drawn from.                                     *)
(***************************************************************************)
\* the clock advances in steps of the duplicate-check buffer
timeBuffer == 30
ClockStep == timeBuffer

\* requested start times (minutes): one that is too early, then three that
\* are 30 minutes apart
StartChoices == {60, 120, 150, 180}

\* the start time of the booking whose lifecycle is followed
LifecycleStarts == {180}

\* fareDetails sent by the client with createBooking
Fare(base, night) ==
  [baseFare |-> base, nightCharges |-> night,
   subtotal |-> base + night,
   gst |-> MathRound(calculateGST(base + night, GST_RATE_PERCENT), 100),
   finalAmount |-> base + night + MathRound(calculateGST(base + night, GST_RATE_PERCENT), 100),
   discountCode |-> "none", discountAmount |-> 0, discountType |-> "none"]

FareChoices == {Fare(2100, 0)}

\* start times on both sides of the cancellation window: the earliest start
\* that can be booked, and one that is an hour outside the window
ChargeStarts ==
  {MIN_BOOKING_HOURS_AHEAD * 60, CANCELLATION_WINDOW_HOURS * 60 + 2 * ClockStep}

\* fares whose charge is a whole number (441) and is not (314.8)
ChargeFares == {Fare(2100, 0), Fare(1499, 0)}

\* a fare to be charged, and a body whose finalAmount is 0
PreviewFares == {Fare(2100, 0), [Fare(2100, 0) EXCEPT !.finalAmount = 0]}

\* fareDetails of a local package: subtotal = baseFare + extraKmCharge +
\* extraHourCharge, no night charge
LocalPackageFare(base, extraKmCharge, extraHourCharge) ==
  [Fare(base, 0) EXCEPT
     !.subtotal = base + extraKmCharge + extraHourCharge,
     !.gst = MathRound(calculateGST(base + extraKmCharge + extraHourCharge,
                                    GST_RATE_PERCENT), 100),
     !.finalAmount = base + extraKmCharge + extraHourCharge
                       + MathRound(calculateGST(base + extraKmCharge + extraHourCharge,
                                                GST_RATE_PERCENT), 100)]

\* fareDetails a client may send with createBooking: the body is stored as
\* sent once finalAmount is a number >= 0.  An outstation fare, a fare with
\* a baseFare of 4, a local package with 10 extra km, and a body whose
\* finalAmount is 0 whatever its other fields
FareInputs ==
  {Fare(2100, 0), Fare(4, 0), LocalPackageFare(1499, 140, 0),
   [Fare(2100, 0) EXCEPT !.finalAmount = 0]}

VehicleChoices == {"SEDAN"}

DiscountCodes == {"FIRST100", "SAVE10", "BOGUS"}

\* status values a client may send to updateBookingStatus
StatusInputs == Statuses \cup {"BOGUS"}

\* who may call updateBookingStatus: the admin, any driver, any customer
Callers ==
  {[role |-> "ADMIN", uid |-> 0]}
    \cup [role : {"DRIVER"}, uid : Drivers] \cup [role : {"CUSTOMER"}, uid : Users]

\* the drivers on file: every driver is available and verified, odd ones
\* drive a SEDAN and even ones an SUV
DriverProfile(d) ==
  [isAvailable |-> TRUE, isVerified |-> TRUE,
   vehicleType |-> IF d % 2 = 1 THEN "SEDAN" ELSE "SUV"]

(***************************************************************************)
(* State.                                                                  *)
(***************************************************************************)
VARIABLES
  bookings,        \* the Booking collection: sequence of documents, _id = index
  completedRides,  \* User.completedRides of each driver
  now,             \* the wall clock
  req,             \* per request slot: the handler's position and locals
  resp,            \* the response of the request that has just ended
  GEO_CACHE,       \* the geo service's Map: its entries in insertion order
  lastCached       \* history: per key, the data last cached and when

vars == <<bookings, completedRides, now, req, resp, GEO_CACHE, lastCached>>

\* a free request slot
IdleReq ==
  [pc |-> "idle", op |-> "none", role |-> "none", uid |-> 0, bid |-> 0,
   arg |-> "none", start |-> 0, refundAmount |-> 0, snap |-> Null, doc |-> Null,
   geo |-> Null, fares |-> Null, message |-> "none", charges |-> Null]

\* no response is being sent
NoResponse ==
  [op |-> "none", role |-> "none", uid |-> 0, bid |-> 0, arg |-> "none",
   start |-> 0, refundAmount |-> 0, from |-> "none", geo |-> Null,
   fares |-> Null, message |-> "none", charges |-> Null, push |-> "none",
   outcome |-> "none"]

\* a booking that entered as PENDING, the schema's default status
PendingBooking(u, tripDate, vehicleType, fareDetails) ==
  [userId |-> u, status |-> "PENDING", startDateTime |-> tripDate,
   vehicleType |-> vehicleType, driverId |-> NoDriver,
   paymentStatus |-> "PENDING", paymentMethod |-> "CASH",
   fareDetails |-> fareDetails, cancellation |-> Null, rating |-> Null,
   trip |-> Null]

\* the collection is empty, or holds one booking waiting for confirmation
Init ==
  /\ \/ bookings = <<>>
     \/ \E t \in LifecycleStarts, v \in VehicleChoices, f \in FareChoices :
          bookings = <<PendingBooking(1, t, v, f)>>
  /\ completedRides = [d \in Drivers |-> 0]
  /\ now = 0
  /\ req = [p \in Procs |-> IdleReq]
  /\ resp = NoResponse
  /\ GEO_CACHE = <<>>
  /\ lastCached = {}

\* the handlers that, after their write, send a push notification to the
\* booking's user (who is taken to have a device token) without awaiting it
NotifyingOps == {"createBooking", "cancelBooking", "updateBookingStatus"}

\* the response of request r: what was asked, the status the handler found
\* on the document it loaded, and how the request ended
Response(r, outcome) ==
  [op |-> r.op, role |-> r.role, uid |-> r.uid, bid |-> r.bid, arg |-> r.arg,
   start |-> r.start,
   refundAmount |-> IF outcome = "OK" THEN r.refundAmount ELSE 0,
   from |-> IF r.snap = Null THEN "none" ELSE r.snap[1].status,
   geo |-> r.geo,
   fares |-> IF outcome = "OK" THEN r.fares ELSE Null,
   message |-> IF outcome = "OK" THEN "none" ELSE r.message,
   charges |-> IF outcome = "OK" THEN r.charges ELSE Null,
   push |-> IF outcome = "OK" /\ r.op \in NotifyingOps THEN "sent" ELSE "none",
   outcome |-> outcome]

\* request slot p starts request r, which either goes on to its next await
\* (r.pc) or has thrown err: catchAsync forwards the error and the slot is
\* free again
Continue(p, r) ==
  /\ req' = [req EXCEPT ![p] = r]
  /\ resp' = NoResponse

Throw(p, r, err) ==
  /\ req' = [req EXCEPT ![p] = IdleReq]
  /\ resp' = Response(r, err)

\* sendSuccess
Succeed(p, r) ==
  /\ req' = [req EXCEPT ![p] = IdleReq]
  /\ resp' = Response(r, "OK")

\* Booking.findById(id)
FindById(b) == IF b \in DOMAIN bookings THEN <<bookings[b]>> ELSE Null

\* the lookup by _id alone
FindOwned_Any(b, u) == IF b \in DOMAIN bookings THEN <<bookings[b]>> ELSE Null

\* Booking.findOne({ _id: id, userId: user })
FindOwned(b, u) ==
  IF b \in DOMAIN bookings /\ bookings[b].userId = u THEN <<bookings[b]>> ELSE Null

(***************************************************************************)
(* createBooking                                                           *)
(***************************************************************************)
\* statuses excluded by the duplicate query's $nin
InactiveStatuses == {"CANCELLED", "COMPLETED", "REJECTED"}

\* the duplicate query with $gt / $lt in place of $gte / $lte
DuplicateQuery_Exclusive(u, tripDate) ==
  {b \in DOMAIN bookings :
     /\ bookings[b].userId = u
     /\ bookings[b].startDateTime > tripDate - timeBuffer
     /\ bookings[b].startDateTime < tripDate + timeBuffer
     /\ bookings[b].status \notin InactiveStatuses}

\* the duplicate query: same user, start within the buffer (both ends
\* inclusive), status not in the $nin list
DuplicateQuery(u, tripDate) ==
  {b \in DOMAIN bookings :
     /\ bookings[b].userId = u
     /\ bookings[b].startDateTime >= tripDate - timeBuffer
     /\ bookings[b].startDateTime <= tripDate + timeBuffer
     /\ bookings[b].status \notin InactiveStatuses}

\* the document Booking.create builds; schema defaults for the rest
NewBooking(u, tripDate, vehicleType, fareDetails) ==
  [userId |-> u, status |-> "CONFIRMED", startDateTime |-> tripDate,
   vehicleType |-> vehicleType, driverId |-> NoDriver,
   paymentStatus |-> "PENDING", paymentMethod |-> "CASH",
   fareDetails |-> fareDetails, cancellation |-> Null, rating |-> Null,
   trip |-> Null]

\* number of createBooking requests between their duplicate check and insert
PendingInserts == Cardinality({p \in Procs : req[p].pc = "insert"})

\* validation and duplicate check, up to the await of Booking.create
createBooking(p, u, tripDate, vehicleType, fareDetails) ==
  /\ resp = NoResponse
  /\ req[p].pc = "idle"
  /\ LET r == [IdleReq EXCEPT !.op = "createBooking", !.role = "CUSTOMER", !.uid = u,
                              !.start = tripDate,
                              !.doc = <<NewBooking(u, tripDate, vehicleType, fareDetails)>>]
         existingBooking == DuplicateQuery(u, tripDate)
     IN IF tripDate < now + MIN_BOOKING_HOURS_AHEAD * 60 THEN Throw(p, r, "BadRequestError")
        ELSE IF tripDate > now + ADVANCE_BOOKING_DAYS * 24 * 60 THEN Throw(p, r, "BadRequestError")
        ELSE IF fareDetails.finalAmount < 0 THEN Throw(p, r, "BadRequestError")
        ELSE IF existingBooking # {} THEN Throw(p, r, "ConflictError")
        ELSE Continue(p, [r EXCEPT !.pc = "insert"])
  /\ UNCHANGED <<GEO_CACHE, lastCached, bookings, completedRides, now>>

\* an insert that repeats the duplicate query in the same step
createBookingInsert_Guarded(p) ==
  /\ resp = NoResponse
  /\ req[p].pc = "insert"
  /\ IF DuplicateQuery(req[p].uid, req[p].start) # {}
     THEN Throw(p, req[p], "ConflictError") /\ UNCHANGED bookings
     ELSE /\ bookings' = Append(bookings, req[p].doc[1])
          /\ Succeed(p, [req[p] EXCEPT !.bid = Len(bookings) + 1])
  /\ UNCHANGED <<GEO_CACHE, lastCached, completedRides, now>>

\* Booking.create resolves: the document is in the collection
createBookingInsert(p) ==
  /\ resp = NoResponse
  /\ req[p].pc = "insert"
  /\ bookings' = Append(bookings, req[p].doc[1])
  /\ Succeed(p, [req[p] EXCEPT !.bid = Len(bookings) + 1])
  /\ UNCHANGED <<GEO_CACHE, lastCached, completedRides, now>>

(***************************************************************************)
(* booking.save(): one update filtered by _id that $sets the paths whose   *)
(* value the handler changed.  A single nested sub-document that was null  *)
(* when loaded and assigned by the handler is written whole.               *)
(***************************************************************************)
MergeTrip(dbTrip, snapTrip, docTrip) ==
  IF docTrip = snapTrip THEN dbTrip
  ELSE IF snapTrip = Null \/ dbTrip = Null THEN docTrip
  ELSE <<[actualStartTime |->
             IF docTrip[1].actualStartTime # snapTrip[1].actualStartTime
             THEN docTrip[1].actualStartTime ELSE dbTrip[1].actualStartTime,
          actualEndTime |->
             IF docTrip[1].actualEndTime # snapTrip[1].actualEndTime
             THEN docTrip[1].actualEndTime ELSE dbTrip[1].actualEndTime]>>

\* the update without the gst path
MergeFare_NoGst(dbFare, snapFare, docFare) ==
  [dbFare EXCEPT
     !.discountCode = IF docFare.discountCode # snapFare.discountCode
                      THEN docFare.discountCode ELSE @,
     !.discountAmount = IF docFare.discountAmount # snapFare.discountAmount
                        THEN docFare.discountAmount ELSE @,
     !.discountType = IF docFare.discountType # snapFare.discountType
                      THEN docFare.discountType ELSE @,
     !.subtotal = IF docFare.subtotal # snapFare.subtotal THEN docFare.subtotal ELSE @,
     !.finalAmount = IF docFare.finalAmount # snapFare.finalAmount
                     THEN docFare.finalAmount ELSE @]

MergeFare(dbFare, snapFare, docFare) ==
  [dbFare EXCEPT
     !.discountCode = IF docFare.discountCode # snapFare.discountCode
                      THEN docFare.discountCode ELSE @,
     !.discountAmount = IF docFare.discountAmount # snapFare.discountAmount
                        THEN docFare.discountAmount ELSE @,
     !.discountType = IF docFare.discountType # snapFare.discountType
                      THEN docFare.discountType ELSE @,
     !.subtotal = IF docFare.subtotal # snapFare.subtotal THEN docFare.subtotal ELSE @,
     !.gst = IF docFare.gst # snapFare.gst THEN docFare.gst ELSE @,
     !.finalAmount = IF docFare.finalAmount # snapFare.finalAmount
                     THEN docFare.finalAmount ELSE @]

MergeModified(db, snap, doc) ==
  [db EXCEPT
     !.status = IF doc.status # snap.status THEN doc.status ELSE @,
     !.cancellation = IF doc.cancellation # snap.cancellation THEN doc.cancellation ELSE @,
     !.rating = IF doc.rating # snap.rating THEN doc.rating ELSE @,
     !.trip = MergeTrip(@, snap.trip, doc.trip),
     !.fareDetails = MergeFare(@, snap.fareDetails, doc.fareDetails)]

save(p) ==
  /\ resp = NoResponse
  /\ req[p].pc = "save"
  /\ bookings' = [bookings EXCEPT ![req[p].bid] =
                    MergeModified(@, req[p].snap[1], req[p].doc[1])]
  /\ Succeed(p, req[p])
  /\ UNCHANGED <<GEO_CACHE, lastCached, completedRides, now>>

\* booking.save() rejects (a validation or a database error): nothing is
\* written and the handler ends with the error
saveRejects(p) ==
  /\ resp = NoResponse
  /\ req[p].pc = "save"
  /\ Throw(p, req[p], "Error")
  /\ UNCHANGED <<GEO_CACHE, lastCached, bookings, completedRides, now>>

(***************************************************************************)
(* cancelBooking                                                           *)
(***************************************************************************)
\* the list with CANCELLED added
cancellableStatuses_Cancelled == {"PENDING", "CONFIRMED", "ASSIGNED", "CANCELLED"}

cancellableStatuses == {"PENDING", "CONFIRMED", "ASSIGNED"}

\* the charge without the test that the start has not passed
cancellationCharge_AfterStart(booking, t) ==
  LET minutesUntilStart == booking.startDateTime - t
  IN IF minutesUntilStart < CANCELLATION_WINDOW_HOURS * 60
     THEN MathRound(booking.fareDetails.finalAmount * CANCELLATION_CHARGE_PERCENT, 100)
     ELSE 0

\* the charge of a cancellation at time t: the percentage inside the window
\* and before the start, else 0
cancellationCharge(booking, t) ==
  LET minutesUntilStart == booking.startDateTime - t
  IN IF minutesUntilStart < CANCELLATION_WINDOW_HOURS * 60 /\ minutesUntilStart >= 0
     THEN MathRound(booking.fareDetails.finalAmount * CANCELLATION_CHARGE_PERCENT, 100)
     ELSE 0

\* chargeApplied of cancelBooking: the cancellation is inside the window and
\* before the start
chargeApplied(booking, t) ==
  LET minutesUntilStart == booking.startDateTime - t
  IN minutesUntilStart < CANCELLATION_WINDOW_HOURS * 60 /\ minutesUntilStart >= 0

\* the cancellation record cancelBooking writes at time t
userCancellation(booking, t) ==
  [cancelledBy |-> "USER", cancelledAt |-> t, reason |-> "Cancelled by user",
   charge |-> cancellationCharge(booking, t)]

\* the refundAmount cancelBooking reports: computed only for a payment that
\* is COMPLETED or PROCESSING and not in cash, else left at 0
refundAmount(booking, charge) ==
  IF /\ booking.paymentStatus \in {"COMPLETED", "PROCESSING"}
     /\ booking.paymentMethod # "CASH"
  THEN Max(0, booking.fareDetails.finalAmount - charge)
  ELSE 0

\* from the findOne to the await of booking.save()
cancelBooking(p, u, b) ==
  /\ resp = NoResponse
  /\ req[p].pc = "idle"
  /\ LET found == FindOwned(b, u)
         r == [IdleReq EXCEPT !.op = "cancelBooking", !.role = "CUSTOMER",
                              !.uid = u, !.bid = b, !.snap = found]
     IN IF found = Null THEN Throw(p, r, "NotFoundError")
        ELSE IF found[1].status \notin cancellableStatuses
             THEN Throw(p, r, "BadRequestError")
        ELSE Continue(p, [r EXCEPT !.pc = "save",
               !.refundAmount = refundAmount(found[1], cancellationCharge(found[1], now)),
               !.charges = <<[charge |-> cancellationCharge(found[1], now),
                              applies |-> chargeApplied(found[1], now)]>>,
               !.doc = <<[found[1] EXCEPT
                  !.status = "CANCELLED",
                  !.cancellation = <<userCancellation(found[1], now)>>]>>])
  /\ UNCHANGED <<GEO_CACHE, lastCached, bookings, completedRides, now>>

(***************************************************************************)
(* updateBookingStatus                                                     *)
(***************************************************************************)
\* the table with an entry COMPLETED: { CONFIRMED: [ADMIN] } added
allowedTransitions_Reopen ==
  [s \in Statuses |-> [t \in Statuses |->
     CASE s = "PENDING" /\ t = "CONFIRMED" -> {"ADMIN"}
       [] s = "PENDING" /\ t = "REJECTED" -> {"ADMIN"}
       [] s = "PENDING" /\ t = "CANCELLED" -> {"ADMIN", "CUSTOMER"}
       [] s = "CONFIRMED" /\ t = "ASSIGNED" -> {"ADMIN"}
       [] s = "CONFIRMED" /\ t = "CANCELLED" -> {"ADMIN", "CUSTOMER"}
       [] s = "ASSIGNED" /\ t = "IN_PROGRESS" -> {"DRIVER"}
       [] s = "ASSIGNED" /\ t = "CANCELLED" -> {"ADMIN", "CUSTOMER", "DRIVER"}
       [] s = "IN_PROGRESS" /\ t = "COMPLETED" -> {"DRIVER"}
       [] s = "COMPLETED" /\ t = "CONFIRMED" -> {"ADMIN"}
       [] OTHER -> {}]]

\* the table with COMPLETED: [DRIVER] added to the entry of ASSIGNED
allowedTransitions_SkipTrip ==
  [s \in Statuses |-> [t \in Statuses |->
     CASE s = "PENDING" /\ t = "CONFIRMED" -> {"ADMIN"}
       [] s = "PENDING" /\ t = "REJECTED" -> {"ADMIN"}
       [] s = "PENDING" /\ t = "CANCELLED" -> {"ADMIN", "CUSTOMER"}
       [] s = "CONFIRMED" /\ t = "ASSIGNED" -> {"ADMIN"}
       [] s = "CONFIRMED" /\ t = "CANCELLED" -> {"ADMIN", "CUSTOMER"}
       [] s = "ASSIGNED" /\ t = "IN_PROGRESS" -> {"DRIVER"}
       [] s = "ASSIGNED" /\ t = "COMPLETED" -> {"DRIVER"}
       [] s = "ASSIGNED" /\ t = "CANCELLED" -> {"ADMIN", "CUSTOMER", "DRIVER"}
       [] s = "IN_PROGRESS" /\ t = "COMPLETED" -> {"DRIVER"}
       [] OTHER -> {}]]

\* allowedTransitions[currentStatus][status]: the roles that may make the
\* transition; {} where the table has no entry
allowedTransitions ==
  [s \in Statuses |-> [t \in Statuses |->
     CASE s = "PENDING" /\ t = "CONFIRMED" -> {"ADMIN"}
       [] s = "PENDING" /\ t = "REJECTED" -> {"ADMIN"}
       [] s = "PENDING" /\ t = "CANCELLED" -> {"ADMIN", "CUSTOMER"}
       [] s = "CONFIRMED" /\ t = "ASSIGNED" -> {"ADMIN"}
       [] s = "CONFIRMED" /\ t = "CANCELLED" -> {"ADMIN", "CUSTOMER"}
       [] s = "ASSIGNED" /\ t = "IN_PROGRESS" -> {"DRIVER"}
       [] s = "ASSIGNED" /\ t = "CANCELLED" -> {"ADMIN", "CUSTOMER", "DRIVER"}
       [] s = "IN_PROGRESS" /\ t = "COMPLETED" -> {"DRIVER"}
       [] OTHER -> {}]]

\* `throw new AuthorizationError(...)`: the controller imports NotFoundError,
\* BadRequestError, ConflictError and ServiceUnavailableError only, so the
\* identifier is unbound and evaluating the throw raises a ReferenceError
ThrowAuthorizationError == "ReferenceError"

\* the populated user rendered as its id
populatedToString_Id(u) == <<"id", u>>

\* booking.userId.toString() after populate('userId', ...): the populated
\* user document is rendered, not its id
populatedToString(u) == <<"document", u>>
\* req.user._id.toString(): the id in hexadecimal
idToString(u) == <<"id", u>>

\* booking.trip?.actualStartTime / actualEndTime
ActualStartTime(booking) ==
  IF booking.trip = Null THEN NoTime ELSE booking.trip[1].actualStartTime
ActualEndTime(booking) ==
  IF booking.trip = Null THEN NoTime ELSE booking.trip[1].actualEndTime

\* if (!booking.trip) booking.trip = {}
TripOrEmpty(booking) ==
  IF booking.trip = Null THEN [actualStartTime |-> NoTime, actualEndTime |-> NoTime]
  ELSE booking.trip[1]

\* the cancellation record updateBookingStatus writes at time t
roleCancellation(role, t) ==
  [cancelledBy |-> role, cancelledAt |-> t, reason |-> "Cancelled by role", charge |-> 0]

\* the local document after the timestamp branch and the status assignment
StatusEdit(booking, role, status, t) ==
  LET stamped ==
        IF status = "IN_PROGRESS" /\ ActualStartTime(booking) = NoTime
        THEN [booking EXCEPT !.trip = <<[TripOrEmpty(booking) EXCEPT !.actualStartTime = t]>>]
        ELSE IF status = "COMPLETED" /\ ActualEndTime(booking) = NoTime
        THEN [booking EXCEPT !.trip = <<[TripOrEmpty(booking) EXCEPT !.actualEndTime = t]>>]
        ELSE IF status = "CANCELLED" /\ booking.cancellation = Null
        THEN [booking EXCEPT !.cancellation = <<roleCancellation(role, t)>>]
        ELSE booking
  IN [stamped EXCEPT !.status = status]

\* the branch that awaits User.findByIdAndUpdate($inc completedRides)
IncrementsCompletedRides(booking, status) ==
  /\ ~(status = "IN_PROGRESS" /\ ActualStartTime(booking) = NoTime)
  /\ status = "COMPLETED" /\ ActualEndTime(booking) = NoTime
  /\ booking.driverId # NoDriver

\* from the status check to the first await after findById
updateBookingStatus(p, role, u, b, status) ==
  /\ resp = NoResponse
  /\ req[p].pc = "idle"
  /\ LET found == IF status \in Statuses THEN FindById(b) ELSE Null
         r == [IdleReq EXCEPT !.op = "updateBookingStatus", !.role = role, !.uid = u,
                              !.bid = b, !.arg = status, !.snap = found]
     IN IF status \notin Statuses THEN Throw(p, r, "BadRequestError")
        ELSE IF found = Null THEN Throw(p, r, "NotFoundError")
        ELSE LET booking == found[1]
                 currentStatus == booking.status
                 transitionsForCurrent == allowedTransitions[currentStatus]
             IN IF role = "CUSTOMER" /\ populatedToString(booking.userId) # idToString(u)
                THEN Throw(p, r, ThrowAuthorizationError)
                ELSE IF /\ role = "CUSTOMER"
                        /\ populatedToString(booking.userId) = idToString(u)
                        /\ status # "CANCELLED"
                THEN Throw(p, r, ThrowAuthorizationError)
                ELSE IF transitionsForCurrent[status] = {}
                THEN Throw(p, r, "BadRequestError")
                ELSE IF role \notin transitionsForCurrent[status]
                THEN Throw(p, r, ThrowAuthorizationError)
                ELSE Continue(p, [r EXCEPT
                       !.pc = IF IncrementsCompletedRides(booking, status)
                              THEN "increment" ELSE "save",
                       !.doc = <<StatusEdit(booking, role, status, now)>>])
  /\ UNCHANGED <<GEO_CACHE, lastCached, bookings, completedRides, now>>

\* User.findByIdAndUpdate(booking.driverId._id, { $inc: { completedRides: 1 } })
incrementCompletedRides(p) ==
  /\ resp = NoResponse
  /\ req[p].pc = "increment"
  /\ completedRides' = [completedRides EXCEPT ![req[p].snap[1].driverId] = @ + 1]
  /\ Continue(p, [req[p] EXCEPT !.pc = "save"])
  /\ UNCHANGED <<GEO_CACHE, lastCached, bookings, now>>

(***************************************************************************)
(* getCancellationCharges: what cancelling now would cost.                 *)
(***************************************************************************)
\* the preview charges after the start as well
potentialCancellation_AfterStart(booking, t) ==
  LET minutesUntilStart == booking.startDateTime - t
      finalAmount == booking.fareDetails.finalAmount
      inWindow == minutesUntilStart < CANCELLATION_WINDOW_HOURS * 60
  IN IF booking.status \notin {"PENDING", "CONFIRMED", "ASSIGNED"} \/ ~inWindow
          \/ ~(finalAmount > 0)
       THEN [charge |-> 0, applies |-> FALSE]
     ELSE [charge |-> MathRound(finalAmount * CANCELLATION_CHARGE_PERCENT, 100),
           applies |-> TRUE]

\* potentialCancellationCharge and chargeWillApply at time t
potentialCancellation(booking, t) ==
  LET minutesUntilStart == booking.startDateTime - t
      isCancellable == booking.status \in {"PENDING", "CONFIRMED", "ASSIGNED"}
      finalAmount == booking.fareDetails.finalAmount
      inWindow == minutesUntilStart < CANCELLATION_WINDOW_HOURS * 60 /\ minutesUntilStart >= 0
      computed == IF inWindow /\ finalAmount > 0
                  THEN [charge |-> MathRound(finalAmount * CANCELLATION_CHARGE_PERCENT, 100),
                        applies |-> TRUE]
                  ELSE [charge |-> 0, applies |-> FALSE]
  IN IF ~isCancellable THEN [charge |-> 0, applies |-> FALSE] ELSE computed

\* the handler reads and answers in one step
getCancellationCharges(p, u, b) ==
  /\ resp = NoResponse
  /\ req[p].pc = "idle"
  /\ LET found == FindOwned(b, u)
         r == [IdleReq EXCEPT !.op = "getCancellationCharges", !.role = "CUSTOMER",
                              !.uid = u, !.bid = b, !.snap = found]
     IN IF found = Null THEN Throw(p, r, "NotFoundError")
        ELSE Succeed(p, [r EXCEPT !.charges = <<potentialCancellation(found[1], now)>>])
  /\ UNCHANGED <<GEO_CACHE, lastCached, bookings, completedRides, now>>

(***************************************************************************)
(* Driver acceptance: the conditional update filtered by status CONFIRMED  *)
(* that assigns an eligible driver.                                        *)
(***************************************************************************)
EligibleDriver(d, booking) ==
  /\ DriverProfile(d).isAvailable
  /\ DriverProfile(d).isVerified
  /\ DriverProfile(d).vehicleType = booking.vehicleType

acceptBooking(p, d, b) ==
  /\ resp = NoResponse
  /\ req[p].pc = "idle"
  /\ LET found == FindById(b)
         r == [IdleReq EXCEPT !.op = "acceptBooking", !.role = "DRIVER", !.uid = d,
                              !.bid = b, !.arg = "ASSIGNED", !.snap = found]
     IN IF found = Null
        THEN Throw(p, r, "NotFoundError") /\ UNCHANGED bookings
        ELSE IF ~EligibleDriver(d, found[1])
        THEN Throw(p, r, "BadRequestError") /\ UNCHANGED bookings
        ELSE IF found[1].status # "CONFIRMED"
        THEN Throw(p, r, "ConflictError") /\ UNCHANGED bookings
        ELSE /\ bookings' = [bookings EXCEPT ![b] =
                               [@ EXCEPT !.status = "ASSIGNED", !.driverId = d]]
             /\ Succeed(p, r)
  /\ UNCHANGED <<GEO_CACHE, lastCached, completedRides, now>>

(***************************************************************************)
(* applyDiscount                                                           *)
(***************************************************************************)
discountableStatuses == {"CONFIRMED", "ASSIGNED"}

\* fareDetails after a discount whose unrounded amount is cents / 100
DiscountedFare(fareDetails, code, type, cents) ==
  LET discountAmount == MathRound(cents, 100)
      originalSubtotal == fareDetails.baseFare + fareDetails.nightCharges
      subtotalAfterDiscount == Max(0, originalSubtotal - discountAmount)
      newGst == calculateGST(subtotalAfterDiscount, GST_RATE_PERCENT)
      newFinalAmount == subtotalAfterDiscount * 100 + newGst
  IN [fareDetails EXCEPT
        !.discountCode = code,
        !.discountAmount = discountAmount,
        !.discountType = type,
        !.subtotal = subtotalAfterDiscount,
        !.gst = MathRound(newGst, 100),
        !.finalAmount = MathRound(newFinalAmount, 100)]

\* from `if (discountAmount <= 0)` to the await of booking.save()
applyDiscountFinish(p, r, type, cents) ==
  IF cents <= 0 THEN Throw(p, r, "BadRequestError")
  ELSE Continue(p, [r EXCEPT !.pc = "save",
         !.doc = <<[r.snap[1] EXCEPT
            !.fareDetails = DiscountedFare(@, r.arg, type, cents)]>>])

\* from the findOne to the next await: countDocuments for FIRST100, else save
applyDiscount(p, u, b, code) ==
  /\ resp = NoResponse
  /\ req[p].pc = "idle"
  /\ LET found == FindOwned(b, u)
         r == [IdleReq EXCEPT !.op = "applyDiscount", !.role = "CUSTOMER", !.uid = u,
                              !.bid = b, !.arg = code, !.snap = found]
     IN IF found = Null THEN Throw(p, r, "NotFoundError")
        ELSE IF found[1].status \notin discountableStatuses
        THEN Throw(p, r, "BadRequestError")
        ELSE IF found[1].startDateTime <= now THEN Throw(p, r, "BadRequestError")
        ELSE IF found[1].fareDetails.discountAmount > 0 THEN Throw(p, r, "ConflictError")
        ELSE IF code = "FIRST100" THEN Continue(p, [r EXCEPT !.pc = "count"])
        ELSE IF code = "SAVE10"
        THEN applyDiscountFinish(p, r, "PERCENTAGE",
                                 Min(found[1].fareDetails.baseFare * 10, 150 * 100))
        ELSE Throw(p, r, "BadRequestError")
  /\ UNCHANGED <<GEO_CACHE, lastCached, bookings, completedRides, now>>

\* Booking.countDocuments({ userId, status: COMPLETED }) resolves
applyDiscountCount(p) ==
  /\ resp = NoResponse
  /\ req[p].pc = "count"
  /\ LET pastBookings == Cardinality({b \in DOMAIN bookings :
                            bookings[b].userId = req[p].uid /\ bookings[b].status = "COMPLETED"})
     IN IF pastBookings = 0 THEN applyDiscountFinish(p, req[p], "FIXED", 100 * 100)
        ELSE Throw(p, req[p], "BadRequestError")
  /\ UNCHANGED <<GEO_CACHE, lastCached, bookings, completedRides, now>>

(***************************************************************************)
(* addRating.  The driver's average, recomputed after the save, is a field *)
(* of the driver's User document and is not followed here.                 *)
(***************************************************************************)
\* req.body.rating: out of range, and in range
RatingInputs == {0, 4}

\* from the validation of the rating to the await of booking.save()
addRating(p, u, b, rating) ==
  /\ resp = NoResponse
  /\ req[p].pc = "idle"
  /\ LET found == IF rating < 1 \/ rating > 5 THEN Null ELSE FindOwned(b, u)
         r == [IdleReq EXCEPT !.op = "addRating", !.role = "CUSTOMER", !.uid = u,
                              !.bid = b, !.snap = found]
     IN IF rating < 1 \/ rating > 5
          THEN Throw(p, [r EXCEPT !.message = "Rating must be a number between 1 and 5."],
                     "BadRequestError")
        ELSE IF found = Null THEN Throw(p, r, "NotFoundError")
        ELSE IF found[1].status # "COMPLETED" THEN Throw(p, r, "BadRequestError")
        ELSE IF found[1].rating # Null THEN Throw(p, r, "ConflictError")
        ELSE Continue(p, [r EXCEPT !.pc = "save",
               !.doc = <<[found[1] EXCEPT !.rating = <<[value |-> rating, createdAt |-> now]>>]>>])
  /\ UNCHANGED <<GEO_CACHE, lastCached, bookings, completedRides, now>>

(***************************************************************************)
(* The fare calculators of the pricing service.  Inside a calculator the   *)
(* amounts are exact: a distance is given in hundredths of a kilometre, a  *)
(* charge is kept in tenths, thousandths or hundred-thousandths of a rupee *)
(* as the products make it, and Math.round is applied where the code       *)
(* applies it, on the fields of the returned object.  A calculator that    *)
(* throws BadRequestError is Null.  The distances followed are within      *)
(* DISTANCE_CONFIG's outstation limits.                                    *)
(***************************************************************************)
\* config/constants.js for a SEDAN: PRICING (the documented per-km rate and
\* minimum fare; a night multiplier of 1.25), LOCAL_PACKAGES['8_80'] (the
\* documented package price and extra-km rate), AIRPORT_BASE_PRICE and
\* DISTANCE_CONFIG.FREE_KM_FOR_AIRPORT
Tariff ==
  [perKmRate |-> 14, minFare |-> 1500, nightChargePercent |-> 125,
   packageFare |-> 1499, extraKmRate |-> 14, extraHourRate |-> 150,
   airportBasePrice |-> 999, freeKm |-> 10]

\* the amounts every calculator returns, from the subtotal in thousandths
\* of a rupee: gst = calculateGST(subtotal, rate), finalAmount = subtotal +
\* gst, each rounded on its own in the returned object
RoundedAmounts(subtotal) ==
  LET gst == calculateGST(subtotal, GST_RATE_PERCENT)
      finalAmount == subtotal * 100 + gst
  IN [subtotal |-> MathRound(subtotal, 1000), gst |-> MathRound(gst, 100000),
      totalFare |-> MathRound(subtotal, 1000),
      finalAmount |-> MathRound(finalAmount, 100000)]

\* the night surcharge is added by day as well
NightCharges_Always(baseFare, isNight) ==
  baseFare * (Tariff.nightChargePercent - 100)

\* nightCharges = baseFare * (nightChargeMultiplier - 1) at night, from the
\* base fare in tenths of a rupee to thousandths
NightCharges(baseFare, isNight) ==
  IF isNight THEN baseFare * (Tariff.nightChargePercent - 100) ELSE 0

\* startDateTime as the validation sees it: a date that does not parse, one
\* before Date.now(), one from now to now + ADVANCE_BOOKING_DAYS, or one
\* beyond; isNight is what isNightTime (utils/helpers.js) says of it
StartTimes ==
  [when : {"invalid", "past", "within", "beyond"}, isNight : BOOLEAN]

\* a trip that starts within the booking window, by day or by night
StartWithin(isNight) == [when |-> "within", isNight |-> isNight]

\* below the minimum fare the kilometres are charged on top of it
OutstationBaseFare_OnTop(totalDistance, isRoundTrip) ==
  LET baseFare == totalDistance * Tariff.perKmRate
      minFareToApply == IF isRoundTrip THEN Tariff.minFare * 15 ELSE Tariff.minFare * 10
  IN IF baseFare < minFareToApply THEN minFareToApply + baseFare ELSE baseFare

\* the base fare in tenths of a rupee, of the total distance in tenths of a
\* kilometre: the kilometres at the per-km rate, or the minimum fare (one
\* and a half for a round trip) if that is more
OutstationBaseFare(totalDistance, isRoundTrip) ==
  LET baseFare == totalDistance * Tariff.perKmRate
      minFareToApply == IF isRoundTrip THEN Tariff.minFare * 15 ELSE Tariff.minFare * 10
  IN IF baseFare < minFareToApply THEN minFareToApply ELSE baseFare

calculateOutstationFare(vehicleType, distance, isRoundTrip, startDateTime) ==
  LET isNight == startDateTime.isNight
      multiplier == IF isRoundTrip THEN 2 ELSE 1
      totalDistance == MathRound(distance * multiplier, 10)
      baseFare == OutstationBaseFare(totalDistance, isRoundTrip)
      nightCharges == NightCharges(baseFare, isNight)
      amounts == RoundedAmounts(baseFare * 100 + nightCharges)
  IN IF vehicleType # "SEDAN" \/ distance <= 0 THEN Null
     ELSE IF startDateTime.when = "invalid" THEN Null
     ELSE IF startDateTime.when = "beyond" THEN Null
     ELSE <<[vehicleType |-> vehicleType,
             bookingType |-> IF isRoundTrip THEN "ROUND_TRIP" ELSE "ONE_WAY",
             baseFare |-> MathRound(baseFare, 10), distance |-> totalDistance,
             nightCharges |-> MathRound(nightCharges, 1000), isNightTime |-> isNight,
             subtotal |-> amounts.subtotal, gst |-> amounts.gst,
             totalFare |-> amounts.totalFare, finalAmount |-> amounts.finalAmount]>>

\* the package price whatever the extras
calculateLocalPackageFare_PackageOnly(vehicleType, extraKm, extraHours) ==
  LET amounts == RoundedAmounts(Tariff.packageFare * 1000)
  IN <<[vehicleType |-> vehicleType, bookingType |-> "LOCAL_8_80",
        baseFare |-> Tariff.packageFare, extraKm |-> extraKm, extraHours |-> extraHours,
        extraKmCharge |-> 0, extraHourCharge |-> 0,
        subtotal |-> amounts.subtotal, gst |-> amounts.gst,
        totalFare |-> amounts.totalFare, finalAmount |-> amounts.finalAmount]>>

\* extras.extraKm and extras.extraHours in tenths
calculateLocalPackageFare(vehicleType, extraKm, extraHours) ==
  LET baseFare == Tariff.packageFare
      extraKmCharge == extraKm * Tariff.extraKmRate
      extraHourCharge == extraHours * Tariff.extraHourRate
      amounts == RoundedAmounts((baseFare * 10 + extraKmCharge + extraHourCharge) * 100)
  IN IF vehicleType # "SEDAN" \/ extraKm < 0 \/ extraKm > 5000
          \/ extraHours < 0 \/ extraHours > 120 THEN Null
     ELSE <<[vehicleType |-> vehicleType, bookingType |-> "LOCAL_8_80",
             baseFare |-> baseFare, extraKm |-> extraKm, extraHours |-> extraHours,
             extraKmCharge |-> MathRound(extraKmCharge, 10),
             extraHourCharge |-> MathRound(extraHourCharge, 10),
             subtotal |-> amounts.subtotal, gst |-> amounts.gst,
             totalFare |-> amounts.totalFare, finalAmount |-> amounts.finalAmount]>>

\* the distance, unrounded, counts beyond the free kilometres; the distances
\* followed have one decimal
calculateAirportFare(vehicleType, distance, startDateTime) ==
  LET isNight == startDateTime.isNight
      extraKm == Max(0, distance \div 10 - Tariff.freeKm * 10)
      extraKmCharge == extraKm * Tariff.perKmRate
      baseFare == Tariff.airportBasePrice * 10 + extraKmCharge
      nightCharges == NightCharges(baseFare, isNight)
      amounts == RoundedAmounts(baseFare * 100 + nightCharges)
  IN IF vehicleType # "SEDAN" \/ distance <= 0 \/ distance > 200 * 100 THEN Null
     ELSE IF startDateTime.when = "invalid" THEN Null
     ELSE <<[vehicleType |-> vehicleType, bookingType |-> "AIRPORT_TRANSFER",
             baseFare |-> MathRound(baseFare, 10), distance |-> MathRound(distance, 10),
             extraKm |-> extraKm, extraKmCharge |-> MathRound(extraKmCharge, 10),
             nightCharges |-> MathRound(nightCharges, 1000), isNightTime |-> isNight,
             subtotal |-> amounts.subtotal, gst |-> amounts.gst,
             totalFare |-> amounts.totalFare, finalAmount |-> amounts.finalAmount]>>

\* the message of the BadRequestError calculateOutstationFare throws, "none"
\* if it returns a fare
OutstationFareError(vehicleType, distance, isRoundTrip, startDateTime) ==
  IF vehicleType # "SEDAN" THEN "Invalid vehicle type"
  ELSE IF distance <= 0 THEN "Distance must be a valid positive number"
  ELSE IF startDateTime.when = "invalid" THEN "Invalid start date/time format"
  ELSE IF startDateTime.when = "beyond" THEN "Cannot book more than ADVANCE_BOOKING_DAYS days in advance"
  ELSE "none"

\* the message of the BadRequestError calculateAirportFare throws
AirportFareError(vehicleType, distance, startDateTime) ==
  IF vehicleType # "SEDAN" THEN "Invalid vehicle type"
  ELSE IF distance <= 0 THEN "Distance must be a positive number"
  ELSE IF distance > 200 * 100 THEN "Airport transfers are only for distances up to 200 km."
  ELSE IF startDateTime.when = "invalid" THEN "Invalid start date/time"
  ELSE "none"

\* the booking types followed
BookingTypes == {"ONE_WAY", "ROUND_TRIP", "AIRPORT_DROP"}

\* the fare of one vehicle type for a booking type, Null if the calculator
\* throws, and the message it throws with
FareFor(bookingType, vehicleType, distance, startDateTime) ==
  IF bookingType = "AIRPORT_DROP"
    THEN calculateAirportFare(vehicleType, distance, startDateTime)
  ELSE calculateOutstationFare(vehicleType, distance, bookingType = "ROUND_TRIP", startDateTime)

FareErrorFor(bookingType, vehicleType, distance, startDateTime) ==
  IF bookingType = "AIRPORT_DROP"
    THEN AirportFareError(vehicleType, distance, startDateTime)
  ELSE OutstationFareError(vehicleType, distance, bookingType = "ROUND_TRIP", startDateTime)

\* getVehicleOptions for the vehicle type followed: the option of each
\* vehicle type whose calculator returns; a calculator's error is logged
\* and the type skipped; with no option left it throws an error of its own
getVehicleOptions(bookingType, params) ==
  LET fareDetails == FareFor(bookingType, "SEDAN", params.distance, params.startDateTime)
      options == IF fareDetails = Null THEN <<>> ELSE <<fareDetails[1]>>
  IN IF params.distance <= 0
       THEN [options |-> <<>>,
             message |-> "Distance is required and must be greater than 0 for this booking type"]
     ELSE IF options = <<>>
       THEN [options |-> <<>>,
             message |-> "No vehicles available for the selected booking type and parameters"]
     ELSE [options |-> options, message |-> "none"]

\* distances asked of the calculators, in hundredths of a kilometre: none,
\* 5 km, 80 km and 100 km (the minimum fare applies, to a round trip or to
\* both kinds), 107.1 km and 107.2 km (about the one-way minimum fare),
\* 150 km to 151 km by tenths, one with two decimals, and one beyond the
\* airport limit
PriceDistances ==
  {0, 500, 8000, 10000, 10710, 10720, 15064, 25000} \cup {15000 + 10 * k : k \in 0..10}

\* extra kilometres and extra hours of a local package, in tenths: none,
\* half a unit, 10, 10.5, a negative number, and the first tenth beyond each
\* of the two limits
PriceExtras == {0, 5, 100, 105, -5, 121, 5001}

\* a calculator is called with args and returns fareData, or throws with
\* message
Priced(calculator, args, fareData, message) ==
  /\ resp = NoResponse
  /\ resp' = [NoResponse EXCEPT !.op = calculator, !.arg = args, !.fares = fareData,
                !.message = message,
                !.outcome = IF fareData = Null THEN "BadRequestError" ELSE "OK"]
  /\ UNCHANGED <<GEO_CACHE, lastCached, bookings, completedRides, now, req>>

(***************************************************************************)
(* Distance resolution of searchCabs and getFareEstimate.  Distances are   *)
(* in tenths of a kilometre (Math.round(km * 10) / 10 keeps one decimal).  *)
(* The handler's locals are in req[p].geo; calls lists the requests sent   *)
(* to the geocoding and the routing provider, in order.  The bodies        *)
(* followed here ask for a one-way trip by day in a SEDAN, on a valid      *)
(* date, so that the validation around the resolution passes.              *)
(***************************************************************************)
\* two points, as { lat, lng } in whole degrees
Places == {[lat |-> 18, lng |-> 73], [lat |-> 15, lng |-> 74]}

\* req.body: from and to ("" when missing), distance (0: missing, or not a
\* number greater than 0; 150 km; 250 km, beyond the airport limit), the
\* booking type and the optional coordinates
SearchBodies ==
  [from : {"", "Pune"}, to : {"", "Goa"}, distance : {0, 1500, 2500},
   type : {"ONE_WAY", "AIRPORT_DROP"},
   fromCoordinates : {Null, <<[lat |-> 18, lng |-> 73]>>},
   toCoordinates : {Null} \cup {<<c>> : c \in Places}]

\* what the routing provider may answer: -1 for a failed request (timeout,
\* a code other than Ok, no route, no valid distance), else the metres of the
\* first route
RouteResponses == {-1, 0, 40, 120400}

\* haversine distance * 1.4, rounded to one decimal: the values for Places
calculateDistanceFromCoordinates(origin, destination) ==
  IF origin = destination THEN 0 ELSE 4903

\* the locals of a resolution at its start
GeoLocals(body, source) ==
  [body |-> body, estimatedDistance |-> body.distance, distanceSource |-> source,
   originCoords |-> body.fromCoordinates, destinationCoords |-> body.toCoordinates,
   calls |-> <<>>, geocoded |-> <<>>, osrm |-> Null, named |-> {}]

\* the final check on the distance, then the fares by day: searchCabs asks
\* getVehicleOptions, getFareEstimate the calculator of the booking type,
\* whose BadRequestError it throws again
searchFinish(p, r) ==
  LET g == r.geo[1]
      params == [distance |-> g.estimatedDistance * 10, startDateTime |-> StartWithin(FALSE)]
      vehicleOptions == getVehicleOptions(g.body.type, params)
      fareDetails == FareFor(g.body.type, "SEDAN", params.distance, params.startDateTime)
      pricingError == FareErrorFor(g.body.type, "SEDAN", params.distance, params.startDateTime)
  IN IF g.estimatedDistance <= 0
       THEN Throw(p, [r EXCEPT !.message = "Could not determine a valid distance"],
                  "BadRequestError")
     ELSE IF r.op = "searchCabs"
       THEN IF vehicleOptions.message # "none"
              THEN Throw(p, [r EXCEPT !.message = vehicleOptions.message], "BadRequestError")
            ELSE Succeed(p, [r EXCEPT !.fares = <<vehicleOptions.options[1]>>])
     ELSE IF fareDetails = Null
       THEN Throw(p, [r EXCEPT !.message = pricingError], "BadRequestError")
     ELSE Succeed(p, [r EXCEPT !.fares = fareDetails])

\* searchCabs, from its validation to the first provider call it awaits
searchCabs(p, body) ==
  /\ resp = NoResponse
  /\ req[p].pc = "idle"
  /\ LET g == GeoLocals(body, "user_provided")
         r == [IdleReq EXCEPT !.op = "searchCabs", !.geo = <<g>>]
         byOrigin == IF g.originCoords = Null THEN "api_calculated"
                     ELSE "user_provided_coordinates"
         byBoth == IF g.destinationCoords = Null THEN byOrigin
                   ELSE "user_provided_coordinates"
     IN IF body.from = "" \/ body.to = "" THEN Throw(p, r, "BadRequestError")
        ELSE IF g.estimatedDistance > 0
          THEN searchFinish(p, [r EXCEPT !.geo =
                 <<[g EXCEPT !.distanceSource = "user_provided_distance"]>>])
        ELSE IF g.originCoords = Null
          THEN Continue(p, [r EXCEPT !.pc = "geocodeFrom", !.geo =
                 <<[g EXCEPT !.distanceSource = "api_calculated",
                             !.calls = <<"geocode">>]>>])
        ELSE IF g.destinationCoords = Null
          THEN Continue(p, [r EXCEPT !.pc = "geocodeTo", !.geo =
                 <<[g EXCEPT !.distanceSource = byOrigin,
                             !.calls = <<"geocode">>]>>])
        ELSE Continue(p, [r EXCEPT !.pc = "route", !.geo =
                 <<[g EXCEPT !.distanceSource = byBoth, !.calls = <<"route">>]>>])
  /\ UNCHANGED <<GEO_CACHE, lastCached, bookings, completedRides, now>>

\* getFareEstimate, from the look at req.body.distance to the first provider
\* call it awaits; its response has no distanceSource
getFareEstimate(p, body) ==
  /\ resp = NoResponse
  /\ req[p].pc = "idle"
  /\ LET g == GeoLocals(body, "undefined")
         r == [IdleReq EXCEPT !.op = "getFareEstimate", !.geo = <<g>>]
     IN IF g.estimatedDistance > 0 THEN searchFinish(p, r)
        ELSE IF g.originCoords # Null /\ g.destinationCoords # Null
          THEN Continue(p, [r EXCEPT !.pc = "route", !.geo =
                 <<[g EXCEPT !.calls = <<"route">>]>>])
        ELSE IF body.from # "" /\ body.to # ""
          THEN Continue(p, [r EXCEPT !.pc = "geocodeFrom", !.geo =
                 <<[g EXCEPT !.calls = <<"geocode">>]>>])
        ELSE Throw(p, r, "BadRequestError")
  /\ UNCHANGED <<GEO_CACHE, lastCached, bookings, completedRides, now>>

\* what the geocoding provider may answer: a failed request, a timeout, an
\* empty list, a first result without valid lat / lon, or a first result
\* with the coordinates of one of Places
GeocodeResponses == {"error", "timeout", "empty", "malformed", "18,73", "15,74"}

\* the value getCoordinatesFromAddressNominatim makes of the answer
NominatimLocation(answer) ==
  IF answer = "18,73" THEN <<[lat |-> 18, lng |-> 73]>>
  ELSE IF answer = "15,74" THEN <<[lat |-> 15, lng |-> 74]>>
  ELSE Null

\* searchCabs with an address the geocoder gave no coordinates for: on to
\* the fares with a default distance of 100 km
searchNotFound_Default(p, r, address) ==
  searchFinish(p, [r EXCEPT !.geo = <<[r.geo[1] EXCEPT
    !.estimatedDistance = 1000, !.distanceSource = "default"]>>])

\* searchCabs with an address the geocoder gave no coordinates for:
\* BadRequestError, its message quoting the address
searchNotFound(p, r, address) ==
  Throw(p, [r EXCEPT !.geo = <<[r.geo[1] EXCEPT !.named = {address}]>>],
        "BadRequestError")

\* getCoordinatesFromAddressNominatim returns: the coordinates of the first
\* result, or null (no result, malformed result, error, timeout).  searchCabs
\* stops at the first address that is not found and keeps coordinates the
\* body gave; getFareEstimate geocodes both addresses, then looks at both.
getCoordinatesFromAddressNominatim(p) ==
  /\ resp = NoResponse
  /\ req[p].pc \in {"geocodeFrom", "geocodeTo"}
  /\ \E answer \in GeocodeResponses :
       LET r == req[p]
           g == r.geo[1]
           isFrom == r.pc = "geocodeFrom"
           location == NominatimLocation(answer)
           heard == [g EXCEPT !.geocoded = Append(g.geocoded, answer)]
           found == IF isFrom THEN [heard EXCEPT !.originCoords = location]
                    ELSE [heard EXCEPT !.destinationCoords = location]
           missing == (IF found.originCoords = Null THEN {g.body.from} ELSE {})
                        \cup (IF found.destinationCoords = Null THEN {g.body.to} ELSE {})
           toNext == [found EXCEPT !.calls = Append(g.calls, "geocode")]
           toRoute == [found EXCEPT !.calls = Append(g.calls, "route")]
           fromUser == [toRoute EXCEPT !.distanceSource = "user_provided_coordinates"]
       IN IF r.op = "searchCabs"
            THEN IF location = Null
                   THEN searchNotFound(p, [r EXCEPT !.geo = <<found>>],
                                       IF isFrom THEN g.body.from ELSE g.body.to)
                 ELSE IF isFrom /\ g.destinationCoords = Null
                   THEN Continue(p, [r EXCEPT !.pc = "geocodeTo", !.geo = <<toNext>>])
                 ELSE IF isFrom
                   THEN Continue(p, [r EXCEPT !.pc = "route", !.geo = <<fromUser>>])
                 ELSE Continue(p, [r EXCEPT !.pc = "route", !.geo = <<toRoute>>])
          ELSE IF isFrom
            THEN Continue(p, [r EXCEPT !.pc = "geocodeTo", !.geo = <<toNext>>])
          ELSE IF found.originCoords = Null \/ found.destinationCoords = Null
            THEN Throw(p, [r EXCEPT !.geo = <<[found EXCEPT !.named = missing]>>],
                       "BadRequestError")
          ELSE Continue(p, [r EXCEPT !.pc = "route", !.geo = <<toRoute>>])
  /\ UNCHANGED <<GEO_CACHE, lastCached, bookings, completedRides, now>>

\* the value getDrivingDistanceOSRM makes of the provider's answer: null (0
\* here) for a failed request and for 0 km between different points
OSRMDistance(metres, origin, destination) ==
  LET distanceInKm == MathRound(metres, 100)
  IN IF metres < 0 THEN 0
     ELSE IF distanceInKm = 0 /\ origin # destination THEN 0
     ELSE distanceInKm

\* the distance kept: the straight-line estimate whatever the router said
ResolvedDistance_Straight(routed, straight) == straight

\* the distance kept: the routed one, else the straight-line estimate
ResolvedDistance(routed, straight) == IF routed > 0 THEN routed ELSE straight

\* getDrivingDistanceOSRM returns; the straight-line fallback when it gave
\* no distance; the final check and the response
getDrivingDistanceOSRM(p) ==
  /\ resp = NoResponse
  /\ req[p].pc = "route"
  /\ \E metres \in RouteResponses :
       LET r == req[p]
           g == r.geo[1]
           routed == OSRMDistance(metres, g.originCoords, g.destinationCoords)
           straight == calculateDistanceFromCoordinates(g.originCoords, g.destinationCoords)
           tag == IF r.op # "searchCabs" THEN g.distanceSource
                  ELSE IF routed <= 0 THEN "api_fallback_straight_line"
                  ELSE IF g.distanceSource # "user_provided_coordinates" THEN "api_osrm"
                  ELSE "api_osrm_from_user_coords"
           done == [r EXCEPT !.pc = "idle", !.geo = <<[g EXCEPT
                     !.estimatedDistance = ResolvedDistance(routed, straight),
                     !.distanceSource = tag, !.osrm = <<metres>>]>>]
       IN IF r.op = "searchCabs" /\ routed <= 0 /\ straight <= 0
            THEN Throw(p, done, "ServiceUnavailableError")
          ELSE searchFinish(p, done)
  /\ UNCHANGED <<GEO_CACHE, lastCached, bookings, completedRides, now>>

(***************************************************************************)
(* The geo service (services/geo.service.js): geocode and                  *)
(* getDistanceMatrix in front of the Google Maps client, with GEO_CACHE,   *)
(* a Map of key -> { data, expiry }, and the cleanup run by setInterval.   *)
(* Times are in minutes.  The client is configured (an API key is set).    *)
(* req[p].geo holds the cache key, the data returned, the answers heard    *)
(* from the provider (none: the provider was not called) and whether the   *)
(* lookup deleted the key's expired entry.  clearCache, which empties the  *)
(* Map on demand, is not followed.                                         *)
(***************************************************************************)
\* CACHE_TTL_MS, one hour
CACHE_TTL == 60
\* MAX_CACHE_SIZE is 5000; two entries here, with three keys in use
MAX_CACHE_SIZE == 2

\* addresses asked of the service
GeoAddresses == {"", "Agra", " AGRA ", "Goa"}

\* address.trim() and String.toLowerCase() on GeoAddresses
Trim(address) == IF address = " AGRA " THEN "AGRA" ELSE address

ToLowerCase(address) ==
  IF address \in {"Agra", "AGRA"} THEN "agra"
  ELSE IF address = "Goa" THEN "goa"
  ELSE address

\* `geocode:${cleanAddress.toLowerCase()}`
GeocodeKey(address) == <<"geocode", ToLowerCase(Trim(address))>>

\* `dist:${JSON.stringify(validOrigin)}|${JSON.stringify(validDestination)}`
DistanceKey(origin, destination) == <<"dist", Trim(origin), Trim(destination)>>

\* GEO_CACHE.has(key) && GEO_CACHE.get(key).expiry > Date.now(): the entry,
\* else Null
CacheHit(key) ==
  IF \E i \in DOMAIN GEO_CACHE : GEO_CACHE[i].key = key /\ GEO_CACHE[i].expiry > now
    THEN <<(CHOOSE e \in {GEO_CACHE[i] : i \in DOMAIN GEO_CACHE} : e.key = key).data>>
  ELSE Null

\* GEO_CACHE.delete(key)
CacheDelete(key) == SelectSeq(GEO_CACHE, LAMBDA e : e.key # key)

\* GEO_CACHE.set(key, { data, expiry: Date.now() + CACHE_TTL_MS }); the
\* mutant keeps the entry for one hour past its time to live
CacheSet_LongLived(key, data) ==
  Append(CacheDelete(key), [key |-> key, data |-> data, expiry |-> now + 2 * CACHE_TTL])

\* a key already in the Map keeps its place
CacheSet(key, data) ==
  LET entry == [key |-> key, data |-> data, expiry |-> now + CACHE_TTL]
  IN IF \E i \in DOMAIN GEO_CACHE : GEO_CACHE[i].key = key
       THEN [i \in DOMAIN GEO_CACHE |->
               IF GEO_CACHE[i].key = key THEN entry ELSE GEO_CACHE[i]]
     ELSE Append(GEO_CACHE, entry)

\* the cache lookup both methods start with: a hit answers at once; on a
\* miss an expired entry is deleted and the provider is called
CachedOrCall(p, r, key, awaiting) ==
  IF CacheHit(key) # Null
    THEN /\ Succeed(p, [r EXCEPT !.geo = <<[key |-> key, data |-> CacheHit(key),
                                            heard |-> <<>>, deleted |-> FALSE]>>])
         /\ UNCHANGED <<GEO_CACHE, lastCached>>
  ELSE /\ Continue(p, [r EXCEPT !.pc = awaiting,
                         !.geo = <<[key |-> key, data |-> Null, heard |-> <<>>,
                                    deleted |-> CacheDelete(key) # GEO_CACHE]>>])
       /\ GEO_CACHE' = CacheDelete(key)
       /\ UNCHANGED lastCached

\* geocode(address), to the cache hit or the call of client.geocode
geocode(p, address) ==
  /\ resp = NoResponse
  /\ req[p].pc = "idle"
  /\ LET r == [IdleReq EXCEPT !.op = "geocode", !.arg = address]
     IN IF Trim(address) = ""
          THEN Throw(p, r, "BadRequestError") /\ UNCHANGED <<GEO_CACHE, lastCached>>
        ELSE CachedOrCall(p, r, GeocodeKey(address), "client.geocode")
  /\ UNCHANGED <<bookings, completedRides, now>>

\* what client.geocode may answer: status OK with a location (of Places),
\* OK with a latitude out of range, OK with no result, another status, or
\* a timeout
GoogleGeocodeResponses ==
  {"OK", "OK_BAD_LOCATION", "OK_NO_RESULT", "ZERO_RESULTS", "OVER_QUERY_LIMIT",
   "REQUEST_DENIED", "UNKNOWN_ERROR", "ETIMEDOUT"}

\* the result is cached whether or not the call succeeded
ProviderReturns_StoresFailure(p, answer, data, err) ==
  LET g == [req[p].geo[1] EXCEPT !.heard = Append(@, answer)]
  IN /\ IF err = "none"
          THEN Succeed(p, [req[p] EXCEPT !.geo = <<[g EXCEPT !.data = <<data>>]>>])
        ELSE Throw(p, [req[p] EXCEPT !.geo = <<g>>], err)
     /\ GEO_CACHE' = CacheSet(g.key, data)
     /\ lastCached' = {c \in lastCached : c.key # g.key}
                         \cup {[key |-> g.key, data |-> data, at |-> now]}

\* the call of a method ends: with data, which is cached, or with an error
ProviderReturns(p, answer, data, err) ==
  LET g == [req[p].geo[1] EXCEPT !.heard = Append(@, answer)]
  IN IF err = "none"
       THEN /\ Succeed(p, [req[p] EXCEPT !.geo = <<[g EXCEPT !.data = <<data>>]>>])
            /\ GEO_CACHE' = CacheSet(g.key, data)
            /\ lastCached' = {c \in lastCached : c.key # g.key}
                                \cup {[key |-> g.key, data |-> data, at |-> now]}
     ELSE /\ Throw(p, [req[p] EXCEPT !.geo = <<g>>], err)
          /\ UNCHANGED <<GEO_CACHE, lastCached>>

\* client.geocode returns
clientGeocode(p) ==
  /\ resp = NoResponse
  /\ req[p].pc = "client.geocode"
  /\ \E answer \in GoogleGeocodeResponses, location \in Places :
       ProviderReturns(p, answer, location,
         IF answer = "OK" THEN "none"
         ELSE IF answer = "OK_BAD_LOCATION" THEN "BadRequestError"
         ELSE IF answer = "ZERO_RESULTS" THEN "NotFoundError"
         ELSE "ServiceUnavailableError")
  /\ UNCHANGED <<bookings, completedRides, now>>

\* getDistanceMatrix(origin, destination) between two addresses
getDistanceMatrix(p, origin, destination) ==
  /\ resp = NoResponse
  /\ req[p].pc = "idle"
  /\ LET r == [IdleReq EXCEPT !.op = "getDistanceMatrix", !.arg = origin]
     IN IF Trim(origin) = "" \/ Trim(destination) = ""
          THEN Throw(p, r, "BadRequestError") /\ UNCHANGED <<GEO_CACHE, lastCached>>
        ELSE CachedOrCall(p, r, DistanceKey(origin, destination), "client.distancematrix")
  /\ UNCHANGED <<bookings, completedRides, now>>

\* what client.distancematrix may answer: the status of the response and of
\* its first element (NONE: no element) and the metres of the element (-1:
\* none)
DistanceMatrixResponses ==
  {[status |-> "OK", element |-> "OK", metres |-> 120400],
   [status |-> "OK", element |-> "OK", metres |-> 98000],
   [status |-> "OK", element |-> "OK", metres |-> 0],
   [status |-> "OK", element |-> "OK", metres |-> -1],
   [status |-> "OK", element |-> "NONE", metres |-> -1],
   [status |-> "OK", element |-> "ZERO_RESULTS", metres |-> -1],
   [status |-> "OK", element |-> "NOT_FOUND", metres |-> -1],
   [status |-> "OVER_QUERY_LIMIT", element |-> "NONE", metres |-> -1],
   [status |-> "ETIMEDOUT", element |-> "NONE", metres |-> -1]}

\* client.distancematrix returns; the distance in tenths of a kilometre (the
\* duration of the result is not followed)
clientDistancematrix(p) ==
  /\ resp = NoResponse
  /\ req[p].pc = "client.distancematrix"
  /\ \E answer \in DistanceMatrixResponses :
       LET distanceInKm == MathRound(answer.metres, 100)
       IN ProviderReturns(p, answer.status, [distance |-> distanceInKm],
            IF answer.status # "OK" \/ answer.element \in {"NONE"}
              THEN "ServiceUnavailableError"
            ELSE IF answer.element \in {"ZERO_RESULTS", "NOT_FOUND"} THEN "NotFoundError"
            ELSE IF answer.metres < 0 \/ distanceInKm <= 0 \/ distanceInKm > 10000 * 10
              THEN "ServiceUnavailableError"
            ELSE "none")
  /\ UNCHANGED <<bookings, completedRides, now>>

\* the place of entry i when the entries are sorted by expiry; Array.sort is
\* stable, entries of equal expiry stay in insertion order
ExpiryRank(entries, i) ==
  Cardinality({j \in DOMAIN entries :
                 \/ entries[j].expiry < entries[i].expiry
                 \/ entries[j].expiry = entries[i].expiry /\ j < i})

\* the entries left when the first entriesToRemove of the sorted entries are
\* deleted
DeleteOldest(entries, entriesToRemove) ==
  LET kept[i \in 0..Len(entries)] ==
        IF i = 0 THEN <<>>
        ELSE IF ExpiryRank(entries, i) < entriesToRemove THEN kept[i - 1]
        ELSE Append(kept[i - 1], entries[i])
  IN kept[Len(entries)]

\* the cleanup deletes the newest entries instead
CleanedCache_Newest(entries, t) ==
  LET live == SelectSeq(entries, LAMBDA e : ~(e.expiry < t))
  IN IF Len(live) > MAX_CACHE_SIZE THEN SubSeq(live, 1, MAX_CACHE_SIZE) ELSE live

\* the cache after the cleanup at time t: entries with expiry < t deleted,
\* then the oldest ones while the size is over MAX_CACHE_SIZE
CleanedCache(entries, t) ==
  LET live == SelectSeq(entries, LAMBDA e : ~(e.expiry < t))
  IN IF Len(live) > MAX_CACHE_SIZE
       THEN DeleteOldest(live, Len(live) - MAX_CACHE_SIZE)
     ELSE live

\* the callback of startCacheCleanup's setInterval
startCacheCleanup ==
  /\ resp = NoResponse
  /\ GEO_CACHE' = CleanedCache(GEO_CACHE, now)
  /\ UNCHANGED <<bookings, completedRides, now, req, resp, lastCached>>

(***************************************************************************)
(* The response is sent before the next step of any request is taken.      *)
(***************************************************************************)
Respond ==
  /\ resp # NoResponse
  /\ resp' = NoResponse
  /\ UNCHANGED <<GEO_CACHE, lastCached, bookings, completedRides, now, req>>

Tick ==
  /\ resp = NoResponse
  /\ now < MaxTicks * ClockStep
  /\ now' = now + ClockStep
  /\ UNCHANGED <<GEO_CACHE, lastCached, bookings, completedRides, req, resp>>

\* the clock advances by an hour, up to MaxHours hours
HourStep == 2 * ClockStep

Hour ==
  /\ resp = NoResponse
  /\ now < MaxHours * HourStep
  /\ now' = now + HourStep
  /\ UNCHANGED <<GEO_CACHE, lastCached, bookings, completedRides, req, resp>>

\* the requests that may arrive, on a collection of at most maxBookings
\* bookings
CreateIn(p, maxBookings, creators, starts) ==
  \E u \in creators, t \in starts, v \in VehicleChoices, f \in FareChoices :
    /\ Len(bookings) + PendingInserts < maxBookings
    /\ createBooking(p, u, t, v, f)

CreateFareIn(p, maxBookings, creators, starts, fares) ==
  \E u \in creators, t \in starts, v \in VehicleChoices, f \in fares :
    /\ Len(bookings) + PendingInserts < maxBookings
    /\ createBooking(p, u, t, v, f)

CancelIn(p, maxBookings) ==
  \E u \in Users, b \in 1..maxBookings : cancelBooking(p, u, b)

UpdateIn(p, maxBookings) ==
  \E c \in Callers, b \in 1..maxBookings, status \in StatusInputs :
    updateBookingStatus(p, c.role, c.uid, b, status)

AcceptIn(p, maxBookings) ==
  \E d \in Drivers, b \in 1..maxBookings : acceptBooking(p, d, b)

DiscountIn(p, maxBookings) ==
  \E u \in Users, b \in 1..maxBookings, code \in DiscountCodes :
    applyDiscount(p, u, b, code)

ChargesIn(p, maxBookings) ==
  \E u \in Users, b \in 1..maxBookings : getCancellationCharges(p, u, b)

RateIn(p, maxBookings) ==
  \E u \in Users, b \in 1..maxBookings, rating \in RatingInputs : addRating(p, u, b, rating)

\* the promise of sendBookingNotification rejects and nothing catches it:
\* the rejection ends the request with an error
sendBookingNotification_Uncaught(delivery) ==
  /\ resp.push = "sent"
  /\ resp' = [resp EXCEPT !.push = delivery,
                          !.outcome = IF delivery = "rejected" THEN "Error" ELSE @]
  /\ UNCHANGED <<GEO_CACHE, lastCached, bookings, completedRides, now, req>>

\* the promise of sendBookingNotification settles while the response is on
\* its way: a rejection goes to the .catch the handler attached, which logs
sendBookingNotification(delivery) ==
  /\ resp.push = "sent"
  /\ resp' = [resp EXCEPT !.push = delivery]
  /\ UNCHANGED <<GEO_CACHE, lastCached, bookings, completedRides, now, req>>

\* a new request takes the first free slot
FirstFree(p) == req[p].pc = "idle" /\ \A q \in Procs : q < p => req[q].pc # "idle"

\* no request is being handled
Quiescent == \A p \in Procs : req[p].pc = "idle"

\* Requests are handled concurrently: between two awaits of one request any
\* step of another may run.  One booking, user 1's, and the operations that
\* read or write its status, driver, trip and cancellation record
\* (applyDiscount writes paths of fareDetails only; it is followed in SeqSpec).
Next ==
  \/ \E p \in Procs : FirstFree(p) /\ CreateIn(p, LifecycleBookings, {1}, LifecycleStarts)
  \/ \E p \in Procs : FirstFree(p) /\ CancelIn(p, LifecycleBookings)
  \/ \E p \in Procs : FirstFree(p) /\ UpdateIn(p, LifecycleBookings)
  \/ \E p \in Procs : FirstFree(p) /\ AcceptIn(p, LifecycleBookings)
  \/ \E p \in Procs : createBookingInsert(p)
  \/ \E p \in Procs : incrementCompletedRides(p)
  \/ \E p \in Procs : save(p)
  \/ Respond
  \/ Tick

Spec == Init /\ [][Next]_vars

\* Requests arrive one after the other: a request starts only when no other
\* is being handled.  One booking, user 1's.
SeqNext ==
  \/ Quiescent /\ CreateIn(1, LifecycleBookings, {1}, LifecycleStarts)
  \/ Quiescent /\ CancelIn(1, LifecycleBookings)
  \/ Quiescent /\ UpdateIn(1, LifecycleBookings)
  \/ Quiescent /\ AcceptIn(1, LifecycleBookings)
  \/ Quiescent /\ DiscountIn(1, LifecycleBookings)
  \/ createBookingInsert(1)
  \/ incrementCompletedRides(1)
  \/ applyDiscountCount(1)
  \/ save(1)
  \/ Respond
  \/ Tick

SeqSpec == Init /\ [][SeqNext]_vars

\* The operations that create bookings or change their status, one request
\* after the other, from both users, on up to MaxBookings bookings.
DupNext ==
  \/ Quiescent /\ CreateIn(1, MaxBookings, Users, StartChoices)
  \/ Quiescent /\ CancelIn(1, MaxBookings)
  \/ Quiescent /\ UpdateIn(1, MaxBookings)
  \/ createBookingInsert(1)
  \/ save(1)
  \/ Respond

DupSpec == Init /\ [][DupNext]_vars

\* The cancellation preview next to the handlers that change a booking's
\* status, one request after the other on one booking of user 1, while
\* hours pass.  No driver accepts, so no request reaches the increment of
\* completedRides.
PreviewNext ==
  \/ Quiescent /\ CreateFareIn(1, LifecycleBookings, {1}, ChargeStarts, PreviewFares)
  \/ Quiescent /\ ChargesIn(1, LifecycleBookings)
  \/ Quiescent /\ CancelIn(1, LifecycleBookings)
  \/ Quiescent /\ UpdateIn(1, LifecycleBookings)
  \/ createBookingInsert(1)
  \/ save(1)
  \/ Respond
  \/ Hour

PreviewSpec == Init /\ [][PreviewNext]_vars

\* Status changes and driver acceptance, one request after the other on one
\* booking of user 1, where a save may fail.  A request that failed can be
\* sent again, so the increments followed are capped at MaxRides.
FailNext ==
  \/ Quiescent /\ CreateIn(1, LifecycleBookings, {1}, LifecycleStarts)
  \/ Quiescent /\ UpdateIn(1, LifecycleBookings)
  \/ Quiescent /\ AcceptIn(1, LifecycleBookings)
  \/ createBookingInsert(1)
  \/ (\A d \in Drivers : completedRides[d] < MaxRides) /\ incrementCompletedRides(1)
  \/ save(1)
  \/ saveRejects(1)
  \/ Respond
  \/ Tick

FailSpec == Init /\ [][FailNext]_vars

\* createBooking and applyDiscount requests of user 1, one after the other,
\* on up to MaxBookings bookings.
CodeNext ==
  \/ Quiescent /\ CreateIn(1, MaxBookings, {1}, StartChoices)
  \/ Quiescent /\ DiscountIn(1, MaxBookings)
  \/ createBookingInsert(1)
  \/ applyDiscountCount(1)
  \/ save(1)
  \/ Respond

CodeSpec == Init /\ [][CodeNext]_vars

\* The handlers that notify, one request after the other on one booking of
\* user 1, with every outcome of the push they send.  No driver accepts, so
\* no request reaches the increment of completedRides.
PushNext ==
  \/ Quiescent /\ CreateIn(1, LifecycleBookings, {1}, LifecycleStarts)
  \/ Quiescent /\ CancelIn(1, LifecycleBookings)
  \/ Quiescent /\ UpdateIn(1, LifecycleBookings)
  \/ createBookingInsert(1)
  \/ save(1)
  \/ \E delivery \in {"delivered", "rejected"} : sendBookingNotification(delivery)
  \/ Respond
  \/ Tick

PushSpec == Init /\ [][PushNext]_vars

\* Requests arrive one after the other, on one booking of user 1 whose
\* fareDetails are any of FareInputs.
FareNext ==
  \/ Quiescent /\ CreateFareIn(1, LifecycleBookings, {1}, LifecycleStarts, FareInputs)
  \/ Quiescent /\ CancelIn(1, LifecycleBookings)
  \/ Quiescent /\ UpdateIn(1, LifecycleBookings)
  \/ Quiescent /\ AcceptIn(1, LifecycleBookings)
  \/ Quiescent /\ DiscountIn(1, LifecycleBookings)
  \/ Quiescent /\ RateIn(1, LifecycleBookings)
  \/ Quiescent /\ ChargesIn(1, LifecycleBookings)
  \/ createBookingInsert(1)
  \/ incrementCompletedRides(1)
  \/ applyDiscountCount(1)
  \/ save(1)
  \/ Respond
  \/ Tick

FareSpec == Init /\ [][FareNext]_vars

\* createBooking and cancelBooking requests of user 1, one after the other,
\* while hours pass: before the cancellation window, inside it and after the
\* start.
ChargeNext ==
  \/ Quiescent /\ CreateFareIn(1, LifecycleBookings, {1}, ChargeStarts, ChargeFares)
  \/ Quiescent /\ CancelIn(1, LifecycleBookings)
  \/ createBookingInsert(1)
  \/ save(1)
  \/ Respond
  \/ Hour

ChargeSpec == Init /\ [][ChargeNext]_vars

\* createBooking and cancelBooking requests of both users handled
\* concurrently, on up to MaxBookings bookings.
RaceNext ==
  \/ \E p \in Procs : FirstFree(p) /\ CreateIn(p, MaxBookings, Users, StartChoices)
  \/ \E p \in Procs : FirstFree(p) /\ CancelIn(p, MaxBookings)
  \/ \E p \in Procs : createBookingInsert(p)
  \/ \E p \in Procs : save(p)
  \/ Respond

RaceSpec == Init /\ [][RaceNext]_vars

\* searchCabs and getFareEstimate requests, one after the other, with every
\* answer of the geocoding and the routing provider.
SearchNext ==
  \/ \E body \in SearchBodies : Quiescent /\ searchCabs(1, body)
  \/ \E body \in SearchBodies : Quiescent /\ getFareEstimate(1, body)
  \/ getCoordinatesFromAddressNominatim(1)
  \/ getDrivingDistanceOSRM(1)
  \/ Respond

SearchSpec == Init /\ [][SearchNext]_vars

\* The fare calculators, called one call at a time with every vehicle type,
\* distance, trip kind, time of day and extras followed.
PriceNext ==
  \/ \E v \in {"SEDAN", "BUS"}, distance \in PriceDistances, isRoundTrip \in BOOLEAN,
        startDateTime \in StartTimes :
       Quiescent /\
         Priced("calculateOutstationFare",
                [vehicleType |-> v, distance |-> distance, isRoundTrip |-> isRoundTrip,
                 startDateTime |-> startDateTime],
                calculateOutstationFare(v, distance, isRoundTrip, startDateTime),
                OutstationFareError(v, distance, isRoundTrip, startDateTime))
  \/ \E v \in {"SEDAN", "BUS"}, extraKm, extraHours \in PriceExtras :
       Quiescent /\
         Priced("calculateLocalPackageFare",
                [vehicleType |-> v, extraKm |-> extraKm, extraHours |-> extraHours],
                calculateLocalPackageFare(v, extraKm, extraHours), "none")
  \/ \E v \in {"SEDAN", "BUS"}, distance \in PriceDistances, startDateTime \in StartTimes :
       Quiescent /\
         Priced("calculateAirportFare",
                [vehicleType |-> v, distance |-> distance, startDateTime |-> startDateTime],
                calculateAirportFare(v, distance, startDateTime),
                AirportFareError(v, distance, startDateTime))
  \/ Respond

PriceSpec == Init /\ [][PriceNext]_vars

\* geocode and getDistanceMatrix calls, one after the other, with every
\* answer of the provider, while time passes and the cleanup runs.
GeoNext ==
  \/ \E address \in GeoAddresses : Quiescent /\ geocode(1, address)
  \/ \E origin \in {"", "Agra"} : Quiescent /\ getDistanceMatrix(1, origin, "Goa")
  \/ clientGeocode(1)
  \/ clientDistancematrix(1)
  \/ startCacheCleanup
  \/ Respond
  \/ Tick
  \/ Hour

GeoSpec == Init /\ [][GeoNext]_vars

(***************************************************************************)
(* The lifecycle rules, as stated for the service.                         *)
(***************************************************************************)
TerminalStatuses == {"COMPLETED", "CANCELLED", "REJECTED"}

\* the status transitions the lifecycle lists
LegalPairs ==
  {<<"PENDING", "CONFIRMED">>, <<"PENDING", "REJECTED">>, <<"PENDING", "CANCELLED">>,
   <<"CONFIRMED", "ASSIGNED">>, <<"CONFIRMED", "CANCELLED">>,
   <<"ASSIGNED", "IN_PROGRESS">>, <<"ASSIGNED", "CANCELLED">>,
   <<"IN_PROGRESS", "COMPLETED">>}

AdminOnlyPairs ==
  {<<"PENDING", "CONFIRMED">>, <<"PENDING", "REJECTED">>, <<"CONFIRMED", "ASSIGNED">>}

DriverOnlyPairs == {<<"ASSIGNED", "IN_PROGRESS">>, <<"IN_PROGRESS", "COMPLETED">>}

\* this step ends a request of operation op
Answers(op) == resp = NoResponse /\ resp'.op = op

\* C1: once a booking is COMPLETED, CANCELLED or REJECTED, no step of an
\* updateBookingStatus, cancelBooking or applyDiscount request, by any role,
\* changes its status again.
C1_TerminalStatusIsFinal ==
  [][\A b \in DOMAIN bookings :
       bookings[b].status \in TerminalStatuses
         => bookings'[b].status = bookings[b].status]_vars

\* an admin asked to reopen a COMPLETED booking and was refused
C1_Witness ==
  /\ resp.op = "updateBookingStatus" /\ resp.role = "ADMIN"
  /\ resp.from = "COMPLETED" /\ resp.arg = "CONFIRMED"
  /\ resp.outcome = "BadRequestError"
  /\ bookings[resp.bid].status = "COMPLETED"

\* C2: an updateBookingStatus request that succeeds moved the booking from
\* S to T along one of the eight listed transitions; a request for any
\* other pair, S = T included, is refused whatever the role; and a refused
\* request leaves the collection as it was.
C2_OnlyListedTransitions ==
  [][Answers("updateBookingStatus") =>
       /\ resp'.outcome = "OK" =>
            /\ <<resp'.from, resp'.arg>> \in LegalPairs
            /\ bookings[resp'.bid].status = resp'.from
            /\ bookings'[resp'.bid].status = resp'.arg
       /\ resp'.outcome # "OK" => bookings' = bookings
       /\ <<resp'.from, resp'.arg>> \notin LegalPairs => resp'.outcome # "OK"]_vars

\* an admin asked to move a CONFIRMED booking to CONFIRMED and was refused with
\* the validation error
C2_Witness ==
  /\ resp.op = "updateBookingStatus" /\ resp.role = "ADMIN"
  /\ resp.from = "CONFIRMED" /\ resp.arg = "CONFIRMED"
  /\ resp.outcome = "BadRequestError"
  /\ bookings[resp.bid].status = "CONFIRMED"

\* C3: a listed transition requested by a role that may not make it (an
\* admin-only one by a driver or customer, a driver-only one by an admin or
\* customer) is refused with the permission error, not the validation
\* error, and the booking is unchanged.
C3_PermissionError ==
  [][(/\ Answers("updateBookingStatus")
      /\ \/ <<resp'.from, resp'.arg>> \in AdminOnlyPairs /\ resp'.role # "ADMIN"
         \/ <<resp'.from, resp'.arg>> \in DriverOnlyPairs /\ resp'.role # "DRIVER")
       => resp'.outcome = "AuthorizationError" /\ bookings' = bookings]_vars

\* C4: of two overlapping updateBookingStatus requests that move the same
\* booking from CONFIRMED to ASSIGNED, the one that comes to write when the
\* other has made the booking ASSIGNED (such a request sets no driver) is
\* refused with the conflict error and writes nothing.
C4_AssignOnce ==
  [][\A p \in Procs :
       (/\ req[p].op = "updateBookingStatus" /\ req[p].arg = "ASSIGNED"
        /\ req[p].pc = "save" /\ req'[p].pc = "idle"
        /\ bookings[req[p].bid].status = "ASSIGNED"
        /\ bookings[req[p].bid].driverId = NoDriver)
         => resp'.outcome = "ConflictError" /\ bookings' = bookings]_vars

\* C5: a booking that is ASSIGNED or IN_PROGRESS has a driver.
C5_AssignedHasDriver ==
  \A b \in DOMAIN bookings :
    bookings[b].status \in {"ASSIGNED", "IN_PROGRESS"} => bookings[b].driverId # NoDriver

\* the bookings assigned to driver d
AssignedTo(d) == {b \in DOMAIN bookings : bookings[b].driverId = d}

\* C6: completedRides is incremented once per booking, whatever the sequence
\* or interleaving of requests: no driver's counter exceeds the number of
\* bookings assigned to that driver.
C6_OneIncrementPerBooking ==
  \A d \in Drivers : completedRides[d] <= Cardinality(AssignedTo(d))

\* C7: once trip.actualStartTime is set, no later step changes it.
C7_StartTimeKept ==
  [][\A b \in DOMAIN bookings :
       ActualStartTime(bookings[b]) # NoTime
         => ActualStartTime(bookings'[b]) = ActualStartTime(bookings[b])]_vars

\* C8: a cancellation request (cancelBooking, or updateBookingStatus to
\* CANCELLED) for a booking that is already CANCELLED is refused and leaves
\* the collection as it was, and a cancellation record, once written, is
\* never written again.
C8_CancelledOnce ==
  [][/\ (/\ \/ Answers("cancelBooking")
            \/ Answers("updateBookingStatus") /\ resp'.arg = "CANCELLED"
         /\ resp'.from = "CANCELLED")
          => resp'.outcome # "OK" /\ bookings' = bookings
     /\ \A b \in DOMAIN bookings :
          bookings[b].cancellation # Null
            => bookings'[b].cancellation = bookings[b].cancellation]_vars

\* the owner asked to cancel a booking cancelled before and was refused
C8_Witness ==
  /\ resp.op = "cancelBooking" /\ resp.from = "CANCELLED"
  /\ resp.outcome = "BadRequestError"
  /\ bookings[resp.bid].status = "CANCELLED"
  /\ bookings[resp.bid].cancellation # Null

\* C9: in every reachable state a booking has a cancellation record exactly
\* when its status is CANCELLED.
C9_RecordIffCancelled ==
  \A b \in DOMAIN bookings :
    bookings[b].cancellation # Null <=> bookings[b].status = "CANCELLED"

\* a booking of user u that is not terminal and starts within 30 minutes of
\* tripDate, both ends included
ActiveNear(u, tripDate) ==
  \E b \in DOMAIN bookings :
    /\ bookings[b].userId = u
    /\ bookings[b].status \notin TerminalStatuses
    /\ bookings[b].startDateTime - tripDate <= 30
    /\ tripDate - bookings[b].startDateTime <= 30

\* the request passes the checks made before the duplicate guard
PassesValidation(tripDate, t) ==
  /\ tripDate >= t + MIN_BOOKING_HOURS_AHEAD * 60
  /\ tripDate <= t + ADVANCE_BOOKING_DAYS * 24 * 60

\* no user holds two bookings that are not terminal and start within 30
\* minutes of each other
NoTwoActiveNear ==
  \A b1, b2 \in DOMAIN bookings :
    (/\ b1 # b2
     /\ bookings[b1].userId = bookings[b2].userId
     /\ bookings[b1].status \notin TerminalStatuses
     /\ bookings[b2].status \notin TerminalStatuses)
      => \/ bookings[b1].startDateTime - bookings[b2].startDateTime > 30
         \/ bookings[b2].startDateTime - bookings[b1].startDateTime > 30

\* C10: with requests handled one after the other, a createBooking request
\* that passes validation is refused with ConflictError exactly when the user
\* has a non-terminal booking starting within 30 minutes (inclusive) of the
\* requested start, and is created otherwise (so terminal bookings never
\* block); and no user ever holds two non-terminal bookings within 30
\* minutes of each other.
C10_DuplicateGuard ==
  [][/\ (Answers("createBooking") /\ PassesValidation(resp'.start, now))
          => /\ resp'.outcome = "ConflictError" <=> ActiveNear(resp'.uid, resp'.start)
             /\ resp'.outcome \in {"ConflictError", "OK"}
     /\ NoTwoActiveNear']_vars

\* a request for a start exactly 30 minutes after the user's CONFIRMED booking
\* was refused
C10_Witness ==
  /\ resp.op = "createBooking" /\ resp.outcome = "ConflictError"
  /\ \E b \in DOMAIN bookings :
       /\ bookings[b].userId = resp.uid
       /\ bookings[b].status = "CONFIRMED"
       /\ resp.start - bookings[b].startDateTime = 30

\* C11: the duplicate check and the insert are two steps with nothing
\* between them that holds the collection: a request that has passed the
\* check inserts its booking and succeeds whatever was inserted meanwhile.
C11_InsertAfterCheck ==
  [][\A p \in Procs :
       (req[p].pc = "insert" /\ req'[p].pc = "idle")
         => /\ resp'.outcome = "OK"
            /\ bookings' = Append(bookings, req[p].doc[1])]_vars

\* two overlapping requests of one user have both been answered OK and the
\* user holds two CONFIRMED bookings starting within 30 minutes of each other
C11_Witness ==
  /\ resp.op = "createBooking" /\ resp.outcome = "OK"
  /\ \E b1, b2 \in DOMAIN bookings :
       /\ b1 # b2
       /\ bookings[b1].userId = resp.uid /\ bookings[b2].userId = resp.uid
       /\ bookings[b1].status = "CONFIRMED" /\ bookings[b2].status = "CONFIRMED"
       /\ bookings[b1].startDateTime - bookings[b2].startDateTime \in 0..30

\* C12: applyDiscount succeeds at most once per booking: once a discount code
\* has been applied, a later applyDiscount on the booking, with any code, does
\* not succeed and leaves fareDetails as they were.
C12_DiscountOnce ==
  [][(/\ Answers("applyDiscount")
      /\ resp'.from # "none"
      /\ bookings[resp'.bid].fareDetails.discountCode # "none")
       => /\ resp'.outcome # "OK"
          /\ bookings'[resp'.bid].fareDetails = bookings[resp'.bid].fareDetails]_vars

\* C13: a successful cancelBooking at time t on a booking with start s records
\* charge = round(finalAmount * CANCELLATION_CHARGE_PERCENT / 100) when
\* 0 <= s - t < CANCELLATION_WINDOW_HOURS, and charge = 0 when s - t is at or
\* beyond the window or s has passed.
C13_CancellationCharge ==
  [][(Answers("cancelBooking") /\ resp'.outcome = "OK")
       => LET booking == bookings'[resp'.bid]
              record == booking.cancellation[1]
              gap == booking.startDateTime - record.cancelledAt
          IN record.charge =
               IF 0 <= gap /\ gap < CANCELLATION_WINDOW_HOURS * 60
               THEN MathRound(booking.fareDetails.finalAmount
                                * CANCELLATION_CHARGE_PERCENT, 100)
               ELSE 0]_vars

\* a booking cancelled an hour inside the window carries the rounded charge,
\* 315 for a finalAmount of 1574
C13_Witness ==
  /\ resp.op = "cancelBooking" /\ resp.outcome = "OK"
  /\ LET booking == bookings[resp.bid]
     IN /\ booking.startDateTime - booking.cancellation[1].cancelledAt
             = CANCELLATION_WINDOW_HOURS * 60 - 2 * ClockStep
        /\ booking.fareDetails.finalAmount = 1574
        /\ booking.cancellation[1].charge = 315

\* C14: every successful cancelBooking reports
\* refundAmount = max(0, finalAmount - charge), whatever the booking's payment
\* status and payment method.
C14_RefundAmount ==
  (resp.op = "cancelBooking" /\ resp.outcome = "OK")
    => LET booking == bookings[resp.bid]
       IN resp.refundAmount =
            Max(0, booking.fareDetails.finalAmount - booking.cancellation[1].charge)

\* tax on an amount, rounded to whole rupees
TaxOn(amount) == MathRound(amount * GST_RATE_PERCENT, 100)

\* the subtotal less the discount: the stored subtotal already has the
\* discount taken off once a code has been applied
NetSubtotal(f) == IF f.discountCode = "none" THEN f.subtotal - f.discountAmount ELSE f.subtotal

\* C15: every stored booking has fareDetails whose monetary fields are
\* non-negative integers with
\* finalAmount = (subtotal - discountAmount) + tax on (subtotal - discountAmount),
\* subtotal being the subtotal before the discount.
C15_FareInvariant ==
  \A b \in DOMAIN bookings :
    LET f == bookings[b].fareDetails
    IN /\ {f.baseFare, f.nightCharges, f.subtotal, f.gst, f.finalAmount, f.discountAmount}
            \subseteq Nat
       /\ f.finalAmount = NetSubtotal(f) + TaxOn(NetSubtotal(f))

\* C16: a successful applyDiscount stores subtotal = max(0, previous subtotal
\* - discountAmount), the tax on that subtotal, and finalAmount = that
\* subtotal + that tax: every component of the previous subtotal is still
\* counted.
C16_DiscountOnSubtotal ==
  [][(Answers("applyDiscount") /\ resp'.outcome = "OK")
       => LET old == bookings[resp'.bid].fareDetails
              new == bookings'[resp'.bid].fareDetails
              discounted == Max(0, old.subtotal - new.discountAmount)
          IN /\ new.subtotal = discounted
             /\ new.gst = TaxOn(discounted)
             /\ new.finalAmount = discounted + TaxOn(discounted)]_vars

\* C17: for every booking createBooking can store, a successful SAVE10 leaves
\* subtotal >= 0 and a finalAmount no larger than the one before.
C17_PercentageNeverRaises ==
  [][(Answers("applyDiscount") /\ resp'.outcome = "OK" /\ resp'.arg = "SAVE10")
       => /\ bookings'[resp'.bid].fareDetails.subtotal >= 0
          /\ bookings'[resp'.bid].fareDetails.finalAmount
               <= bookings[resp'.bid].fareDetails.finalAmount]_vars

\* C19: cancelBooking, updateBookingStatus and addRating never change a
\* booking's fareDetails: the only step that does is the save of a successful
\* applyDiscount, after which subtotal, gst and finalAmount are all three the
\* values that request computed.
C19_FareFrame ==
  [][\A b \in DOMAIN bookings :
       bookings'[b].fareDetails # bookings[b].fareDetails
         => /\ Answers("applyDiscount") /\ resp'.outcome = "OK" /\ resp'.bid = b
            /\ \E p \in Procs :
                 /\ req[p].pc = "save" /\ req'[p].pc = "idle"
                 /\ bookings'[b].fareDetails.subtotal = req[p].doc[1].fareDetails.subtotal
                 /\ bookings'[b].fareDetails.gst = req[p].doc[1].fareDetails.gst
                 /\ bookings'[b].fareDetails.finalAmount
                      = req[p].doc[1].fareDetails.finalAmount]_vars

\* a booking whose discount was applied has since been started, completed and
\* rated, and still carries the fare the discount left: 1950 + 98 = 2048
C19_Witness ==
  /\ resp.op = "addRating" /\ resp.outcome = "OK"
  /\ bookings[resp.bid].rating # Null
  /\ bookings[resp.bid].fareDetails.discountCode = "SAVE10"
  /\ bookings[resp.bid].fareDetails.subtotal = 1950
  /\ bookings[resp.bid].fareDetails.gst = 98
  /\ bookings[resp.bid].fareDetails.finalAmount = 2048

\* C20: a request whose distance is a number greater than 0 makes no
\* geocoding and no routing call, and its successful response carries that
\* distance unchanged, tagged as provided by the user, for searchCabs and for
\* getFareEstimate alike.
C20_UserDistanceSkipsResolution ==
  (resp.op \in {"searchCabs", "getFareEstimate"} /\ resp.geo[1].body.distance > 0)
    => /\ resp.geo[1].calls = <<>>
       /\ resp.outcome = "OK" =>
            /\ resp.geo[1].estimatedDistance = resp.geo[1].body.distance
            /\ resp.geo[1].distanceSource \in {"user_provided", "user_provided_distance"}

\* C18: every fare a calculator returns has subtotal, gst and finalAmount
\* that are non-negative integers with finalAmount = subtotal + gst.
C18_RoundedFareAddsUp ==
  (resp.op \in {"calculateOutstationFare", "calculateLocalPackageFare",
                "calculateAirportFare"} /\ resp.outcome = "OK")
    => LET f == resp.fares[1]
       IN /\ {f.subtotal, f.gst, f.finalAmount} \subseteq Nat
          /\ f.finalAmount = f.subtotal + f.gst

\* the answers of the geocoding provider that give no coordinates
GeocodeFailures == {"error", "timeout", "empty", "malformed"}

\* the address the last geocoding call of a searchCabs request was for
LastGeocoded(g) ==
  IF g.body.fromCoordinates = Null /\ Len(g.geocoded) = 1 THEN g.body.from
  ELSE g.body.to

\* C21: a searchCabs request whose geocoding call for an address got no
\* coordinates (provider error, timeout, empty or malformed result) ends
\* with BadRequestError naming that address; it has made no routing call,
\* its distance is still the request's, and it answers no fare.  No
\* searchCabs request goes on after such an answer.
C21_UnresolvedAddressFails ==
  /\ (resp.op = "searchCabs" /\ resp.geo[1].geocoded # <<>>
        /\ resp.geo[1].geocoded[Len(resp.geo[1].geocoded)] \in GeocodeFailures)
       => /\ resp.outcome = "BadRequestError"
          /\ resp.geo[1].named = {LastGeocoded(resp.geo[1])}
          /\ \A i \in DOMAIN resp.geo[1].calls : resp.geo[1].calls[i] # "route"
          /\ resp.geo[1].osrm = Null
          /\ resp.geo[1].estimatedDistance = resp.geo[1].body.distance
          /\ resp.fares = Null
  /\ \A p \in Procs :
       req[p].op = "searchCabs"
         => \A i \in DOMAIN req[p].geo[1].geocoded :
              req[p].geo[1].geocoded[i] \notin GeocodeFailures

\* the pickup address was found, the geocoding of the drop-off address
\* timed out, and searchCabs has answered with the error
C21_Witness ==
  /\ resp.op = "searchCabs"
  /\ resp.outcome = "BadRequestError"
  /\ resp.geo[1].geocoded = <<"18,73", "timeout">>
  /\ resp.geo[1].named = {"Goa"}

\* the routing call of resolution g has failed: no valid answer, or 0 km
\* between two different points
RoutingFailed(g) ==
  \/ g.osrm[1] < 0
  \/ MathRound(g.osrm[1], 100) = 0 /\ g.originCoords # g.destinationCoords

\* C22: a successful searchCabs or getFareEstimate that did not use the
\* request's distance has called the router with both coordinates; its
\* distance is the routed one (metres / 1000, one decimal) when the router
\* gave one, and the straight-line estimate exactly when the routing call
\* failed.  No request has the estimate before the router has answered.
C22_FallbackOnlyAfterRouting ==
  /\ (resp.op \in {"searchCabs", "getFareEstimate"} /\ resp.outcome = "OK"
        /\ resp.geo[1].body.distance <= 0)
       => LET g == resp.geo[1]
          IN /\ g.osrm # Null
             /\ g.calls # <<>> /\ g.calls[Len(g.calls)] = "route"
             /\ g.originCoords # Null /\ g.destinationCoords # Null
             /\ ~RoutingFailed(g) => g.estimatedDistance = MathRound(g.osrm[1], 100)
             /\ RoutingFailed(g) =>
                  g.estimatedDistance =
                    calculateDistanceFromCoordinates(g.originCoords, g.destinationCoords)
  /\ \A p \in Procs :
       (req[p].op \in {"searchCabs", "getFareEstimate"} /\ req[p].geo[1].osrm = Null)
         => /\ req[p].geo[1].estimatedDistance = req[p].geo[1].body.distance
            /\ req[p].geo[1].distanceSource # "api_fallback_straight_line"

\* the router gave 0 km between two different points and the response has
\* the straight-line estimate
C22_Witness ==
  /\ resp.op = "getFareEstimate"
  /\ resp.outcome = "OK"
  /\ resp.geo[1].osrm = <<40>>
  /\ resp.geo[1].estimatedDistance = 4903

\* C23: every successful searchCabs and getFareEstimate answers a source
\* tag: a user-provided one iff the request's distance was used, a routed
\* one iff the router's distance was used, the fallback one iff the
\* straight-line estimate was used.
C23_SourceTagTellsOrigin ==
  (resp.op \in {"searchCabs", "getFareEstimate"} /\ resp.outcome = "OK")
    => LET g == resp.geo[1]
       IN /\ g.distanceSource \in {"user_provided", "user_provided_distance"}
               <=> g.body.distance > 0
          /\ g.distanceSource \in {"api_osrm", "api_osrm_from_user_coords"}
               <=> (g.osrm # Null /\ ~RoutingFailed(g))
          /\ g.distanceSource = "api_fallback_straight_line"
               <=> (g.osrm # Null /\ RoutingFailed(g))

\* a geocode or getDistanceMatrix call with a valid input starts, with cache
\* key k: it answers at once or goes on to call the provider
GeoCallStarts(k) ==
  /\ req[1].pc = "idle"
  /\ \/ req'[1].pc \in {"client.geocode", "client.distancematrix"} /\ req'[1].geo[1].key = k
     \/ /\ resp = NoResponse
        /\ resp'.op \in {"geocode", "getDistanceMatrix"}
        /\ resp'.outcome = "OK"
        /\ resp'.geo[1].key = k

\* the call that starts is answered from the cache, with data, and the
\* provider is not called
AnsweredFromCache(data) ==
  /\ req'[1].pc = "idle"
  /\ resp'.outcome = "OK"
  /\ resp'.geo[1].data = <<data>>
  /\ resp'.geo[1].heard = <<>>

\* C24, as stated: once a geocode (or getDistanceMatrix) has succeeded, a
\* later call with the same address (trimmed, any case; the same pair)
\* before CACHE_TTL has elapsed is answered with the cached data without a
\* provider call, and a call at or after the expiry calls the provider.
C24_CachedUntilExpiry ==
  [][\A c \in lastCached :
       GeoCallStarts(c.key)
         => IF now < c.at + CACHE_TTL THEN AnsweredFromCache(c.data)
            ELSE req'[1].pc \in {"client.geocode", "client.distancematrix"}]_vars

\* C24, amended: the same, before the expiry only while the entry is still
\* in the cache (no cleanup has deleted it for capacity); at or after the
\* expiry the provider is called whether or not the cleanup has deleted the
\* entry.
C24_CachedWhileKept ==
  [][\A c \in lastCached :
       GeoCallStarts(c.key)
         => IF now < c.at + CACHE_TTL
              THEN (\E i \in DOMAIN GEO_CACHE : GEO_CACHE[i].key = c.key)
                     => AnsweredFromCache(c.data)
            ELSE req'[1].pc \in {"client.geocode", "client.distancematrix"}]_vars

\* " AGRA " is answered from the cache, half an hour after "Agra" was
\* geocoded
C24_Witness ==
  /\ resp.op = "geocode"
  /\ resp.arg = " AGRA "
  /\ resp.outcome = "OK"
  /\ resp.geo[1].heard = <<>>
  /\ now = ClockStep
  /\ \E c \in lastCached : c.key = GeocodeKey("Agra") /\ c.at = 0

\* C25: the cache never holds more than MAX_CACHE_SIZE entries.
C25_CacheBounded == Len(GEO_CACHE) <= MAX_CACHE_SIZE

\* the entries of a cache, as a set (keys are unique)
Entries(cache) == {cache[i] : i \in DOMAIN cache}

\* C26: a cleanup that changes the cache leaves no entry with expiry < now
\* and at most MAX_CACHE_SIZE entries; of the entries that had not expired
\* it deletes exactly the excess over MAX_CACHE_SIZE, each of them expiring
\* no later than every entry it keeps; the entry inserted last is deleted
\* only if no kept entry expires sooner; what is kept is unchanged and
\* stays in order.
C26_SweepEvictsNearestExpiry ==
  [][(GEO_CACHE' # GEO_CACHE /\ UNCHANGED <<req, resp, now>>)
       => LET live == {e \in Entries(GEO_CACHE) : ~(e.expiry < now)}
              kept == Entries(GEO_CACHE')
              evicted == live \ kept
              excess == Max(0, Cardinality(live) - MAX_CACHE_SIZE)
          IN /\ kept \subseteq live
             /\ Len(GEO_CACHE') <= MAX_CACHE_SIZE
             /\ Cardinality(evicted) = excess
             /\ \A e \in evicted, k \in kept : e.expiry <= k.expiry
             /\ GEO_CACHE[Len(GEO_CACHE)] \in evicted
                  => \A k \in kept : ~(k.expiry < GEO_CACHE[Len(GEO_CACHE)].expiry)
             /\ GEO_CACHE' = SelectSeq(GEO_CACHE, LAMBDA e : e \in kept)]_vars

\* the cache is full after a cleanup that deleted an entry cached half an
\* hour before the two it kept: all three keys were cached less than an
\* hour ago
C26_Witness ==
  /\ Len(GEO_CACHE) = MAX_CACHE_SIZE
  /\ Cardinality(lastCached) = MAX_CACHE_SIZE + 1
  /\ \A c \in lastCached : now < c.at + CACHE_TTL
  /\ \E c \in lastCached :
       /\ c.at = 0
       /\ \A i \in DOMAIN GEO_CACHE : GEO_CACHE[i].key # c.key /\ GEO_CACHE[i].expiry > CACHE_TTL

\* a fare calculator has answered a call
Calculated(calculator) == resp.op = calculator /\ resp.outcome = "OK"

\* C27: an outstation fare has totalDistance = distance x (2 for a round
\* trip, else 1) rounded to one decimal, baseFare = the larger of
\* totalDistance x perKmRate and minFare x (1.5 for a round trip, else 1),
\* and nightCharges = baseFare x (nightMultiplier - 1), a quarter of the
\* base fare, at night and 0 by day.  A SEDAN one way over 150 km by day
\* costs baseFare 2100, nightCharges 0, gst 105, finalAmount 2205.
C27_OutstationFareFormula ==
  Calculated("calculateOutstationFare") =>
    LET a == resp.arg
        f == resp.fares[1]
        trips == IF a.isRoundTrip THEN 2 ELSE 1
        byKm == f.distance * Tariff.perKmRate
        floor == (Tariff.minFare * 10 * (IF a.isRoundTrip THEN 3 ELSE 2)) \div 2
        baseFare == IF byKm > floor THEN byKm ELSE floor
    IN /\ f.distance * 10 - 5 <= a.distance * trips
       /\ a.distance * trips < f.distance * 10 + 5
       /\ f.baseFare = MathRound(baseFare, 10)
       /\ f.isNightTime = a.startDateTime.isNight
       /\ f.nightCharges = IF a.startDateTime.isNight THEN MathRound(baseFare, 40) ELSE 0
       /\ (a.distance = 15000 /\ ~a.isRoundTrip /\ ~a.startDateTime.isNight)
            => /\ f.baseFare = 2100 /\ f.nightCharges = 0
               /\ f.gst = 105 /\ f.finalAmount = 2205

\* the SEDAN one way over 150 km by day, and a round trip by night on the
\* minimum fare, have been priced
C27_Witness ==
  /\ Calculated("calculateOutstationFare")
  /\ \/ /\ resp.arg.distance = 15000 /\ ~resp.arg.isRoundTrip
        /\ ~resp.arg.startDateTime.isNight /\ resp.fares[1].finalAmount = 2205
     \/ /\ resp.arg.distance = 500 /\ resp.arg.isRoundTrip
        /\ resp.arg.startDateTime.isNight /\ resp.fares[1].nightCharges > 0

\* C28: a local package costs subtotal = package base fare + extraKm x
\* extraKmRate + extraHours x extraHourRate, with no night surcharge; the
\* calculator rejects a negative extra, more than 500 extra km and more
\* than 12 extra hours.  SEDAN 8h/80km (1499) with 10 extra km at 14/km:
\* extraKmCharge 140, subtotal 1639, gst 82, finalAmount 1721.
C28_LocalPackageFormula ==
  resp.op = "calculateLocalPackageFare" =>
    LET a == resp.arg
    IN /\ (a.extraKm < 0 \/ a.extraHours < 0 \/ a.extraKm > 500 * 10 \/ a.extraHours > 12 * 10)
            => resp.outcome = "BadRequestError" /\ resp.fares = Null
       /\ resp.outcome = "OK" =>
            LET f == resp.fares[1]
            IN /\ f.baseFare = Tariff.packageFare
               /\ f.extraKmCharge = MathRound(a.extraKm * Tariff.extraKmRate, 10)
               /\ f.extraHourCharge = MathRound(a.extraHours * Tariff.extraHourRate, 10)
               /\ f.subtotal = MathRound(f.baseFare * 10 + a.extraKm * Tariff.extraKmRate
                                           + a.extraHours * Tariff.extraHourRate, 10)
               /\ "nightCharges" \notin DOMAIN f
               /\ (a.extraKm = 100 /\ a.extraHours = 0)
                    => /\ f.extraKmCharge = 140 /\ f.subtotal = 1639
                       /\ f.gst = 82 /\ f.finalAmount = 1721

\* the package with 10 extra km has been priced, or a call with 500.1 extra
\* km has been rejected
C28_Witness ==
  /\ resp.op = "calculateLocalPackageFare"
  /\ \/ /\ resp.outcome = "OK" /\ resp.arg.extraKm = 100 /\ resp.arg.extraHours = 0
        /\ resp.fares[1].finalAmount = 1721
     \/ /\ resp.outcome = "BadRequestError" /\ resp.arg.vehicleType = "SEDAN"
        /\ resp.arg.extraKm = 5001 /\ resp.arg.extraHours = 0

\* C29: for the same vehicle, trip kind and start, a longer distance never
\* lowers baseFare or finalAmount of an outstation fare.
C29_FareMonotoneInDistance ==
  Calculated("calculateOutstationFare") =>
    \A longer \in {d \in PriceDistances : d >= resp.arg.distance} :
      LET there == calculateOutstationFare(resp.arg.vehicleType, longer,
                                           resp.arg.isRoundTrip, resp.arg.startDateTime)
      IN /\ there # Null
         /\ there[1].baseFare >= resp.fares[1].baseFare
         /\ there[1].finalAmount >= resp.fares[1].finalAmount

\* a one-way trip of 100 km has been priced at the minimum fare, below the
\* fare of 150 km
C29_Witness ==
  /\ Calculated("calculateOutstationFare")
  /\ resp.arg.distance = 10000 /\ ~resp.arg.isRoundTrip
  /\ resp.fares[1].baseFare = Tariff.minFare
  /\ resp.fares[1].baseFare
       < calculateOutstationFare("SEDAN", 15000, FALSE, resp.arg.startDateTime)[1].baseFare

\* C30: the outstation and the airport calculator reject with a validation
\* error, computing no fare, a vehicle type that is no tariff key, a
\* distance that is not positive (or above 200 km, for the airport), and a
\* start that does not parse, lies in the past or lies beyond the advance
\* booking limit.
C30_InvalidFareInputRejected ==
  resp.op \in {"calculateOutstationFare", "calculateAirportFare"} =>
    LET a == resp.arg
    IN (\/ a.vehicleType # "SEDAN"
        \/ a.distance <= 0
        \/ resp.op = "calculateAirportFare" /\ a.distance > 200 * 100
        \/ a.startDateTime.when # "within")
         => resp.outcome = "BadRequestError" /\ resp.fares = Null

\* C31: when the fare calculators reject a search for every vehicle type,
\* searchCabs answers with the calculator's validation error and message.
C31_CalculatorErrorSurfaced ==
  resp.op = "searchCabs" /\ resp.geo # Null /\ resp.geo[1].estimatedDistance > 0 =>
    LET g == resp.geo[1]
        raised == FareErrorFor(g.body.type, "SEDAN", g.estimatedDistance * 10,
                               StartWithin(FALSE))
    IN raised # "none" => resp.outcome = "BadRequestError" /\ resp.message = raised

\* C32: a push notification that fails after createBooking, cancelBooking
\* or updateBookingStatus leaves the request successful and the booking as
\* the handler wrote it.
C32_PushFailureHarmless ==
  resp.push = "rejected" =>
    /\ resp.outcome = "OK"
    /\ resp.bid \in DOMAIN bookings
    /\ resp.op = "createBooking" => bookings[resp.bid].userId = resp.uid
    /\ resp.op = "cancelBooking" => bookings[resp.bid].status = "CANCELLED"
    /\ resp.op = "updateBookingStatus" => bookings[resp.bid].status = resp.arg

\* the push of a cancellation has been rejected
C32_Witness ==
  /\ resp.push = "rejected" /\ resp.op = "cancelBooking"
  /\ bookings[resp.bid].cancellation # Null

C38_PreviewEqualsCancel ==
  (/\ resp.op = "getCancellationCharges" /\ resp.outcome = "OK"
   /\ bookings[resp.bid].status \in cancellableStatuses)
    => /\ resp.charges[1].charge = cancellationCharge(bookings[resp.bid], now)
       /\ resp.charges[1].applies = chargeApplied(bookings[resp.bid], now)

\* C38: for a booking in a cancellable status the preview reports the charge
\* cancelBooking would record now, whatever the finalAmount, and
\* chargeWillApply is cancelBooking's chargeApplied whenever finalAmount > 0;
\* on a finalAmount of 0 chargeWillApply is false.
C38_PreviewEqualsCancelOnFares ==
  (/\ resp.op = "getCancellationCharges" /\ resp.outcome = "OK"
   /\ bookings[resp.bid].status \in cancellableStatuses)
    => /\ resp.charges[1].charge = cancellationCharge(bookings[resp.bid], now)
       /\ resp.charges[1].applies
            = (chargeApplied(bookings[resp.bid], now)
                 /\ bookings[resp.bid].fareDetails.finalAmount > 0)

\* the preview of an ASSIGNED booking inside the window says that 441
\* will be charged, which is what cancelBooking would record now
C38_Witness ==
  /\ resp.op = "getCancellationCharges" /\ resp.outcome = "OK"
  /\ bookings[resp.bid].status = "ASSIGNED"
  /\ resp.charges[1] = [charge |-> 441, applies |-> TRUE]
  /\ userCancellation(bookings[resp.bid], now).charge = 441

\* the operations a customer has on a booking of their own
CustomerOps == {"cancelBooking", "applyDiscount", "addRating", "getCancellationCharges"}

\* a request of one of CustomerOps names a booking of another user
ForeignRequest(r, op) ==
  /\ r.op = op /\ r.bid \in DOMAIN bookings /\ bookings[r.bid].userId # r.uid

\* C34 as stated: a request of CustomerOps naming another user's booking
\* ends with NotFoundError and leaves the collection unchanged.
C34_ForeignBookingNotFound ==
  [][\A op \in CustomerOps :
       /\ \A p \in Procs : req[p].pc = "idle" => ~ForeignRequest(req'[p], op)
       /\ (resp = NoResponse /\ ForeignRequest(resp', op))
            => resp'.outcome = "NotFoundError" /\ bookings' = bookings]_vars

\* C34: a request of CustomerOps naming another user's booking goes no
\* further than the lookup and leaves the collection unchanged; it ends with
\* NotFoundError, unless addRating has rejected the rating before the
\* lookup, with BadRequestError.
C34_ForeignBookingUntouched ==
  [][\A op \in CustomerOps :
       /\ \A p \in Procs : req[p].pc = "idle" => ~ForeignRequest(req'[p], op)
       /\ (resp = NoResponse /\ ForeignRequest(resp', op))
            => /\ bookings' = bookings
               /\ \/ resp'.outcome = "NotFoundError"
                  \/ /\ op = "addRating" /\ resp'.outcome = "BadRequestError"
                     /\ resp'.message = "Rating must be a number between 1 and 5."]_vars

\* user 2 has asked to cancel the booking of user 1 and was told that it
\* was not found
C34_Witness ==
  /\ resp.op = "cancelBooking" /\ resp.outcome = "NotFoundError"
  /\ resp.bid \in DOMAIN bookings
  /\ bookings[resp.bid].userId # resp.uid
  /\ bookings[resp.bid].status \in cancellableStatuses

\* how far a status is along the path of a booking; CANCELLED and REJECTED
\* are exits
StatusRank(status) ==
  CASE status = "PENDING" -> 0
    [] status = "CONFIRMED" -> 1
    [] status = "ASSIGNED" -> 2
    [] status = "IN_PROGRESS" -> 3
    [] status = "COMPLETED" -> 4
    [] OTHER -> 5

\* C35: whenever the status of a booking changes it moves forward along
\* PENDING, CONFIRMED, ASSIGNED, IN_PROGRESS, COMPLETED or leaves through
\* CANCELLED or REJECTED, and never out of COMPLETED, CANCELLED or REJECTED;
\* so no booking changes status more than 4 times.
C35_StatusOnlyAdvances ==
  [][\A i \in DOMAIN bookings :
       bookings'[i].status # bookings[i].status
         => /\ StatusRank(bookings[i].status) < 4
            /\ StatusRank(bookings'[i].status) > StatusRank(bookings[i].status)]_vars

\* C36: every booking that carries a discount code carries a discountAmount
\* of at least 1, so that the check discountAmount > 0 recognises it.
C36_DiscountAtLeastOne ==
  \A i \in DOMAIN bookings :
    bookings[i].fareDetails.discountCode # "none"
      => bookings[i].fareDetails.discountAmount >= 1

\* C37: once a request has ended, a driver's completedRides counts no more
\* than the driver's bookings whose status COMPLETED is stored: a request
\* whose save failed, or that was rejected, has not raised the counter.
C37_IncrementOnlyIfPersisted ==
  Quiescent =>
    \A d \in Drivers :
      completedRides[d]
        <= Cardinality({b \in AssignedTo(d) : bookings[b].status = "COMPLETED"})

\* C39: no user has two bookings whose discount code is FIRST100.
C39_FirstBookingCodeOnce ==
  \A u \in Users :
    Cardinality({b \in DOMAIN bookings :
                   /\ bookings[b].userId = u
                   /\ bookings[b].fareDetails.discountCode = "FIRST100"}) <= 1

\* a geocode or getDistanceMatrix call ends in an error in this step
GeoCallFails ==
  /\ resp = NoResponse
  /\ resp'.op \in {"geocode", "getDistanceMatrix"}
  /\ resp'.outcome # "OK"

\* C40, as stated: a geocode or getDistanceMatrix call that ends in an
\* error has left the cache as it was: the step that ends it changes no
\* entry, and its lookup has deleted none.
C40_FailedCallLeavesCache ==
  [][GeoCallFails
       => /\ GEO_CACHE' = GEO_CACHE
          /\ resp'.geo # Null => ~resp'.geo[1].deleted]_vars

\* C40, amended: every entry of the cache is a successful result of the
\* provider, kept with its time to live; a call that ends in an error
\* stores nothing when it ends, and the only change the lookup of a call
\* makes before the provider is asked is to delete the expired entry of the
\* call's own key; a call answered from the cache answers the data of a
\* successful result for its key.
C40_FailedCallStoresNothing ==
  [][/\ \A i \in DOMAIN GEO_CACHE :
          \E c \in lastCached :
            /\ c.key = GEO_CACHE[i].key
            /\ c.data = GEO_CACHE[i].data
            /\ c.at + CACHE_TTL = GEO_CACHE[i].expiry
     /\ GeoCallFails => GEO_CACHE' = GEO_CACHE
     /\ (req[1].pc = "idle"
           /\ req'[1].pc \in {"client.geocode", "client.distancematrix"})
          => GEO_CACHE' = SelectSeq(GEO_CACHE,
                            LAMBDA e : ~(e.key = req'[1].geo[1].key /\ e.expiry <= now))
     /\ (resp = NoResponse /\ resp'.op \in {"geocode", "getDistanceMatrix"}
           /\ resp'.outcome = "OK" /\ resp'.geo[1].heard = <<>>)
          => \E c \in lastCached :
               c.key = resp'.geo[1].key /\ <<c.data>> = resp'.geo[1].data]_vars

\* geocode has found no result for an address whose expired entry its
\* lookup deleted, while the entry of another key is still cached
C40_Witness ==
  /\ resp.op = "geocode"
  /\ resp.outcome = "NotFoundError"
  /\ resp.geo[1].heard = <<"ZERO_RESULTS">>
  /\ resp.geo[1].deleted
  /\ Len(GEO_CACHE) = 1
  /\ GEO_CACHE[1].key # resp.geo[1].key

====
